---- MODULE Spec2Model ----
(***************************************************************************)
(* Model of the hOCR dehyphenation processor (processors/dehyphenation.py) *)
(*                                                                         *)
(* Strings are sequences of one-character strings, so that strip, rstrip,  *)
(* split, startswith, int() and the f-string formatting of a bounding box  *)
(* are computed character by character as the Python code computes them.   *)
(***************************************************************************)
EXTENDS Integers, Sequences, FiniteSets, TLC

(***************************************************************************)
(* Bounds of the model                                                     *)
(***************************************************************************)
\* largest number of ocr_line elements of an input page
MaxLines == 3
\* number of successive process_file calls on the same file
MaxRuns == 2

(***************************************************************************)
(* Characters and the str methods the code uses                            *)
(***************************************************************************)
LowerLetters ==
    {"a", "b", "c", "d", "e", "f", "g", "h", "i", "j", "k", "l", "m",
     "n", "o", "p", "q", "r", "s", "t", "u", "v", "w", "x", "y", "z"}
UpperLetters == {"N", "T"}
Letters == LowerLetters \cup UpperLetters
Digits == {"0", "1", "2", "3", "4", "5", "6", "7", "8", "9"}
Whitespace == {" ", "\t", "\n", "\r"}

Min(a, b) == IF a <= b THEN a ELSE b
Max(a, b) == IF a >= b THEN a ELSE b

\* str.lower() on one character
LowerChar(c) == IF c = "T" THEN "t" ELSE IF c = "N" THEN "n" ELSE c

\* str.lower()
Lower(s) == [i \in 1..Len(s) |-> LowerChar(s[i])]

\* str.lstrip() : drop leading whitespace
RECURSIVE LStrip(_)
LStrip(s) ==
    IF s # <<>> /\ Head(s) \in Whitespace THEN LStrip(Tail(s)) ELSE s

\* str.rstrip() : drop trailing whitespace
RECURSIVE RStrip(_)
RStrip(s) ==
    IF s # <<>> /\ s[Len(s)] \in Whitespace
    THEN RStrip(SubSeq(s, 1, Len(s) - 1))
    ELSE s

\* str.strip()
Strip(s) == RStrip(LStrip(s))

\* a plausible slip: only one trailing hyphen removed
RStripOneHyphen(s) ==
    IF s # <<>> /\ s[Len(s)] = "-" THEN SubSeq(s, 1, Len(s) - 1) ELSE s

\* str.rstrip('-') : drop EVERY trailing hyphen
RECURSIVE RStripHyphen(_)
RStripHyphen(s) ==
    IF s # <<>> /\ s[Len(s)] = "-"
    THEN RStripHyphen(SubSeq(s, 1, Len(s) - 1))
    ELSE s

\* str.endswith('-')
EndsWithHyphen(s) == s # <<>> /\ s[Len(s)] = "-"

\* str.isalpha() : non-empty and every character a letter
IsAlpha(s) == s # <<>> /\ \A i \in 1..Len(s) : s[i] \in Letters

\* str.replace("'", "")
RECURSIVE RemoveApostrophes(_)
RemoveApostrophes(s) ==
    IF s = <<>> THEN <<>>
    ELSE IF Head(s) = "'" THEN RemoveApostrophes(Tail(s))
    ELSE <<Head(s)>> \o RemoveApostrophes(Tail(s))

\* str.startswith(p)
StartsWith(s, p) == Len(s) >= Len(p) /\ SubSeq(s, 1, Len(p)) = p

\* str.split(sep) for a one-character separator: always at least one part
RECURSIVE SplitOn(_, _)
SplitOn(s, sep) ==
    IF \E i \in 1..Len(s) : s[i] = sep
    THEN LET i == CHOOSE j \in 1..Len(s) :
                     s[j] = sep /\ \A k \in 1..(j - 1) : s[k] # sep
         IN  <<SubSeq(s, 1, i - 1)>> \o SplitOn(SubSeq(s, i + 1, Len(s)), sep)
    ELSE <<s>>

\* str.split() : split on runs of whitespace, no empty tokens
RECURSIVE SplitWhitespace(_)
SplitWhitespace(s) ==
    LET t == LStrip(s) IN
    IF t = <<>> THEN <<>>
    ELSE IF \E i \in 1..Len(t) : t[i] \in Whitespace
    THEN LET i == CHOOSE j \in 1..Len(t) :
                     t[j] \in Whitespace /\ \A k \in 1..(j - 1) : t[k] \notin Whitespace
         IN  <<SubSeq(t, 1, i - 1)>> \o SplitWhitespace(SubSeq(t, i + 1, Len(t)))
    ELSE <<t>>

\* '; '.join(parts)
RECURSIVE JoinSemicolon(_)
JoinSemicolon(parts) ==
    IF parts = <<>> THEN <<>>
    ELSE IF Len(parts) = 1 THEN parts[1]
    ELSE parts[1] \o <<";", " ">> \o JoinSemicolon(Tail(parts))

DigitValue(c) ==
    CASE c = "0" -> 0 [] c = "1" -> 1 [] c = "2" -> 2 [] c = "3" -> 3
      [] c = "4" -> 4 [] c = "5" -> 5 [] c = "6" -> 6 [] c = "7" -> 7
      [] c = "8" -> 8 [] c = "9" -> 9

DigitChar(d) ==
    CASE d = 0 -> "0" [] d = 1 -> "1" [] d = 2 -> "2" [] d = 3 -> "3"
      [] d = 4 -> "4" [] d = 5 -> "5" [] d = 6 -> "6" [] d = 7 -> "7"
      [] d = 8 -> "8" [] d = 9 -> "9"

\* the digits of a numeral, most significant first
RECURSIVE DigitsValue(_)
DigitsValue(s) ==
    IF s = <<>> THEN 0
    ELSE DigitsValue(SubSeq(s, 1, Len(s) - 1)) * 10 + DigitValue(s[Len(s)])

AllDigits(s) == s # <<>> /\ \A i \in 1..Len(s) : s[i] \in Digits

\* int(token) succeeds: an optional sign followed by decimal digits
IsIntToken(s) ==
    IF s # <<>> /\ Head(s) \in {"-", "+"} THEN AllDigits(Tail(s)) ELSE AllDigits(s)

\* int(token), where it succeeds
IntOf(s) ==
    IF Head(s) = "-" THEN 0 - DigitsValue(Tail(s))
    ELSE IF Head(s) = "+" THEN DigitsValue(Tail(s))
    ELSE DigitsValue(s)

\* the decimal digits of a natural number
RECURSIVE NatStr(_)
NatStr(n) ==
    IF n < 10 THEN <<DigitChar(n)>> ELSE NatStr(n \div 10) \o <<DigitChar(n % 10)>>

\* f"{n}" for an int
IntStr(n) == IF n < 0 THEN <<"-">> \o NatStr(0 - n) ELSE NatStr(n)

(***************************************************************************)
(* BoundingBox and the title attribute                                     *)
(***************************************************************************)
Box(a, b, c, d) == [x1 |-> a, y1 |-> b, x2 |-> c, y2 |-> d]

ZeroBox == Box(0, 0, 0, 0)

\* a plausible slip: the first word's box is kept as it is
merge_with_first_only(self, other) == self

\* BoundingBox.merge_with
merge_with(self, other) ==
    Box(Min(self.x1, other.x1), Min(self.y1, other.y1),
        Max(self.x2, other.x2), Max(self.y2, other.y2))

KwBbox == <<"b", "b", "o", "x">>

\* BoundingBox.to_title_string : f"bbox {x1} {y1} {x2} {y2}"
to_title_string(bbox) ==
    KwBbox \o <<" ">> \o IntStr(bbox.x1) \o <<" ">> \o IntStr(bbox.y1)
           \o <<" ">> \o IntStr(bbox.x2) \o <<" ">> \o IntStr(bbox.y2)

\* Dehyphenator._parse_bbox
parse_bbox(title) ==
    IF title = <<>> THEN ZeroBox
    ELSE LET bbox_part == Strip(SplitOn(title, ";")[1])
             parts == SplitWhitespace(bbox_part)
         IN  IF Len(parts) >= 5 /\ parts[1] = KwBbox
                /\ \A i \in 2..5 : IsIntToken(parts[i])
             THEN Box(IntOf(parts[2]), IntOf(parts[3]), IntOf(parts[4]), IntOf(parts[5]))
             ELSE ZeroBox

\* the loop of _update_bbox_in_title over the split parts
RECURSIVE UpdateParts(_, _)
UpdateParts(parts, bbox) ==
    IF parts = <<>> THEN <<>>
    ELSE LET part == Strip(Head(parts))
             rest == UpdateParts(Tail(parts), bbox)
         IN  IF StartsWith(part, KwBbox) THEN <<to_title_string(bbox)>> \o rest
             ELSE IF part # <<>> THEN <<part>> \o rest
             ELSE rest

\* a plausible slip: the title is rebuilt from the box alone
update_bbox_drops_fields(title, bbox) == to_title_string(bbox)

\* Dehyphenator._update_bbox_in_title
update_bbox_in_title(title, bbox) ==
    IF title = <<>> THEN to_title_string(bbox)
    ELSE LET parts == SplitOn(title, ";")
             bbox_found == \E i \in 1..Len(parts) : StartsWith(Strip(parts[i]), KwBbox)
             new_parts == UpdateParts(parts, bbox)
         IN  JoinSemicolon(IF bbox_found THEN new_parts
                           ELSE <<to_title_string(bbox)>> \o new_parts)

(***************************************************************************)
(* Word elements: element.text, the (text, tail) of each child, title      *)
(***************************************************************************)
Word(t, k, ti) == [text |-> t, kids |-> k, title |-> ti]

RECURSIVE KidsText(_)
KidsText(kids) ==
    IF kids = <<>> THEN <<>>
    ELSE Head(kids).text \o Head(kids).tail \o KidsText(Tail(kids))

\* Dehyphenator._get_word_text
get_word_text(element) == Strip(element.text \o KidsText(element.kids))

(***************************************************************************)
(* The word-validity oracle (enchant.Dict) and the configuration           *)
(***************************************************************************)
\* self.dictionary.check(word)
check(dictionary, word) == word \in dictionary.known

\* self.dictionary.suggest(word)
suggest(dictionary, word) ==
    IF word \in DOMAIN dictionary.suggestions THEN dictionary.suggestions[word] ELSE <<>>

\* the slice suggestions[:5]
TopSuggestions == 5

\* the default of min_word_length
DefaultMinWordLength == 4

\* confidences, in hundredths
ConfKnown == 95
ConfLowerKnown == 90
ConfSuggested == 70
ConfHeuristic == 60
ConfThreshold == 50

\* [s.lower() for s in suggestions[:5]]
LoweredTop(suggestions) ==
    {Lower(suggestions[j]) : j \in 1..Min(TopSuggestions, Len(suggestions))}

MergeCandidate(fe, se, ft, st, mt, fb, sb, c) ==
    [first_word_element |-> fe, second_word_element |-> se,
     first_text |-> ft, second_text |-> st, merged_text |-> mt,
     first_bbox |-> fb, second_bbox |-> sb, confidence |-> c]

\* lines 263-264: base_text = first_text.rstrip('-'); merged_text = base_text + second_text
merged_text_of(first_text, second_text) == RStripHyphen(first_text) \o second_text

\* a plausible slip: the length check never rejects
below_min_length_never(self, merged_text) == FALSE

\* line 267: len(merged_text) < self.min_word_length
below_min_length(self, merged_text) == Len(merged_text) < self.min_word_length

\* a plausible slip: only the exact spelling is looked up
dictionary_confidence_exact_only(dictionary, merged_text) ==
    IF check(dictionary, merged_text) THEN ConfKnown ELSE 0

\* lines 274-286: the confidence the dictionary gives, 0 where it rejects
dictionary_confidence(dictionary, merged_text) ==
    IF check(dictionary, merged_text) THEN ConfKnown
    ELSE IF check(dictionary, Lower(merged_text)) THEN ConfLowerKnown
    ELSE IF Lower(merged_text) \in LoweredTop(suggest(dictionary, merged_text))
         THEN ConfSuggested
         ELSE 0

\* a plausible slip: the apostrophe is not allowed for
heuristic_accepts_letters_only(merged_text) == IsAlpha(merged_text)

\* line 290, negated: the heuristic accepts the merged text
heuristic_accepts(merged_text) ==
    ~(~IsAlpha(merged_text) /\ ~IsAlpha(RemoveApostrophes(merged_text)))

\* Dehyphenator._evaluate_merge_candidate: <<>> for None, else <<candidate>>.
\* first_title, second_title are first_elem.get('title', ''), second_elem.get('title', '')
evaluate_merge_candidate(self, first_elem, second_elem, first_text, second_text, first_title, second_title) ==
    LET merged_text == merged_text_of(first_text, second_text)
        accepted(confidence) ==
            <<MergeCandidate(first_elem, second_elem, first_text, second_text, merged_text,
                             parse_bbox(first_title), parse_bbox(second_title), confidence)>>
    IN  IF below_min_length(self, merged_text) THEN <<>>
        ELSE IF self.dictionary.present
        THEN LET confidence == dictionary_confidence(self.dictionary, merged_text)
             IN  IF confidence = 0 THEN <<>> ELSE accepted(confidence)
        ELSE IF heuristic_accepts(merged_text) THEN accepted(ConfHeuristic) ELSE <<>>

(***************************************************************************)
(* Input catalogue: words, lines, dictionaries, configurations             *)
(***************************************************************************)
NoKids == <<>>

TitleThe == <<"b","b","o","x"," ","1"," ","1"," ","3"," ","2",";"," ",
              "x","_","w","c","o","n","f"," ","9","6">>
TitleNum == <<"b","b","o","x"," ","4"," ","1"," ","6"," ","2",";"," ",
             "x","_","w","c","o","n","f"," ","9","0">>
\* no blank after the semicolon
TitleBer == <<"b","b","o","x"," ","1"," ","3"," ","2"," ","1","5",";",
              "x","_","w","c","o","n","f"," ","8","5">>
TitleNow == <<"b","b","o","x"," ","3"," ","3"," ","5"," ","5">>
\* a second field that begins with the letters bbox (hOCR's bboxes property)
TitleA == <<"b","b","o","x"," ","2"," ","1"," ","3"," ","2",";"," ",
            "b","b","o","x","e","s"," ","2"," ","1"," ","3"," ","2">>
\* x2 < x1
TitleB == <<"b","b","o","x"," ","3"," ","3"," ","1"," ","4">>
\* no blank after the semicolon, and a trailing semicolon
TitleNumUpper == <<"b","b","o","x"," ","5"," ","1"," ","7"," ","2",";",
                  "x","_","w","c","o","n","f"," ","8","8",";">>
\* a coordinate that is no integer
TitleNumNum == <<"b","b","o","x"," ","4"," ","x"," ","6"," ","2",";"," ",
               "x","_","w","c","o","n","f"," ","7","0">>
\* no bbox field at all
TitleBs == <<"x","_","w","c","o","n","f"," ","6","0">>
TitleBer1 == <<"b","b","o","x"," ","0"," ","4"," ","1","2"," ","6">>

WordThe == Word(<<"T","h","e">>, NoKids, TitleThe)
WordNum == Word(<<"n","u","m","-">>, NoKids, TitleNum)
WordBer == Word(<<"b","e","r">>, NoKids, TitleBer)
WordNow == Word(<<"n","o","w">>, NoKids, TitleNow)
\* a word that is a whole line, without a title attribute
WordNumAlone == Word(<<"n","u","m","-">>, NoKids, <<>>)
WordA == Word(<<"a","-">>, NoKids, TitleA)
WordB == Word(<<"b">>, NoKids, TitleB)
\* <span class="ocrx_word"> <strong>Num-</strong> </span>
WordNumUpper == Word(<<" ">>, <<[text |-> <<"N","u","m","-">>, tail |-> <<" ">>]>>, TitleNumUpper)
WordNumNum == Word(<<"n","u","m","-","-">>, NoKids, TitleNumNum)
WordBs == Word(<<"b","'","s">>, NoKids, TitleBs)
WordBer1 == Word(<<"b","e","r","1">>, NoKids, TitleBer1)
\* a word element whose text is blank
WordBlank == Word(<<" ">>, NoKids, TitleNow)

LineCatalogue ==
    { <<WordThe, WordNum>>,
      <<WordBer, WordNow>>,
      <<WordNumAlone>>,
      <<>>,
      <<WordB, WordA>>,
      <<WordNumUpper>>,
      <<WordBs, WordNumNum>>,
      <<WordBer1, WordBlank>> }

StrNumber == <<"n","u","m","b","e","r">>
StrNumnum == <<"n","u","m","n","u","m","-">>
StrAb == <<"a","b">>
StrNumbs == <<"n","u","m","b","'","s">>
StrNumber1 == <<"n","u","m","b","e","r","1">>

NoDictionary == [present |-> FALSE, known |-> {}, suggestions |-> <<>>]

\* knows number, numnum- and ab; suggests Numb's for numb's, and number1 only in sixth place
DictionaryA ==
    [present |-> TRUE,
     known |-> {StrNumber, StrNumnum, StrAb},
     suggestions |->
        (StrNumbs :> << <<"N","u","m","b","'","s">> >>)
        @@ (StrNumber1 :> << <<"n","u","m","b">>, <<"n","u","m","b","s">>, StrNumber,
                           <<"n","u","m","b","e","r","s">>, <<"n","u","m","b","e","r","e","d">>,
                           StrNumber1 >>)]

\* knows no word; offers number among the suggestions for number and for Number
DictionaryB ==
    [present |-> TRUE,
     known |-> {},
     suggestions |->
        (StrNumber :> << <<"n","u","m","b","e","r","s">>, StrNumber >>)
        @@ (<<"N","u","m","b","e","r">> :> << <<"N","u","m","b","e","r","s">>, StrNumber >>)]

Config(e, m, d) == [enabled |-> e, min_word_length |-> m, dictionary |-> d]

ConfigCatalogue ==
    { Config(TRUE, DefaultMinWordLength, NoDictionary),
      Config(TRUE, DefaultMinWordLength, DictionaryA),
      Config(TRUE, DefaultMinWordLength, DictionaryB),
      Config(TRUE, DefaultMinWordLength - 2, DictionaryA),
      Config(FALSE, DefaultMinWordLength, DictionaryA) }

\* the pages of at most n lines
RECURSIVE PagesUpTo(_)
PagesUpTo(n) ==
    IF n = 0 THEN {<<>>}
    ELSE LET shorter == PagesUpTo(n - 1)
         IN  shorter \cup {Append(p, l) : p \in {q \in shorter : Len(q) = n - 1},
                                          l \in LineCatalogue}

\* an hOCR file: whether lxml can parse it, and its lines of words
HocrFile(ok, ls) == [parses |-> ok, lines |-> ls]

InputFiles ==
    {HocrFile(TRUE, p) : p \in PagesUpTo(MaxLines)} \cup {HocrFile(FALSE, <<>>)}

(***************************************************************************)
(* State                                                                   *)
(***************************************************************************)
VARIABLES
    self,          \* the Dehyphenator: enabled, min_word_length, dictionary
    file,          \* the hOCR file at hocr_path
    pc,            \* position in process_file: idle, find, apply, done
    lines,         \* the parsed tree: per ocr_line, its word elements in order
    elem,          \* the word elements of the tree, attached or removed
    i,             \* loop index of _find_merge_candidates
    candidates,    \* the list _find_merge_candidates builds
    k,             \* position of _apply_merges in candidates
    merged_count,  \* counter of _apply_merges
    ret,           \* value returned by the last process_file call
    writes,        \* number of _write_hocr calls so far
    before,        \* the file as it was when the current call began
    runs,          \* number of process_file calls begun
    output,        \* the output_path argument, and the document written there
    arg,           \* a single call under study: its arguments
    result,        \* a single call under study: what it returned or raised
    phase,         \* a single call under study: ready, then called
    job,           \* create_searchable_page: hocr file, dpi, image size
    spc,           \* position in create_searchable_page
    tree,          \* hocr_tree, as _parse_hocr returned it
    parsers,       \* the parsers _parse_hocr has tried, in order
    content,       \* the instruction list being built
    line_no,       \* loop index of _build_text_layer
    sorted_words,  \* fallback of _build_text_layer: the sorted words
    current_line,  \* fallback of _build_text_layer: the group being filled
    current_y,     \* fallback of _build_text_layer: the group's reference y1
    pipeline,      \* MorphicPipeline: _initialized, temp_dir and the files in it
    request,       \* the process_pdf / process_images call: arguments, position
    pdf_pages,     \* its list of page PDFs
    stages,        \* the engine calls it has made, in order
    final_pdf      \* the document saved at output_pdf

dehyph_vars == <<self, file, pc, lines, elem, i, candidates, k, merged_count, ret,
                 writes, before, runs, output>>
call_vars == <<arg, result, phase>>
synth_vars ==
    <<job, spc, tree, parsers, content, line_no, sorted_words, current_line, current_y>>

pipe_vars == <<pipeline, request, pdf_pages, stages, final_pdf>>

vars == <<dehyph_vars, call_vars, synth_vars, pipe_vars>>

\* no single call is under study
NoCall == arg = <<>> /\ result = <<>> /\ phase = "none"

\* no page is being synthesized
NoSynth ==
    /\ job = <<>> /\ spc = "none" /\ tree = <<>> /\ parsers = <<>> /\ content = <<>>
    /\ line_no = 0 /\ sorted_words = <<>> /\ current_line = <<>> /\ current_y = <<>>

\* no file is being dehyphenated
NoDehyph ==
    /\ self = <<>> /\ file = <<>> /\ pc = "none" /\ lines = <<>> /\ elem = <<>> /\ i = 0
    /\ candidates = <<>> /\ k = 0 /\ merged_count = 0 /\ ret = 0 /\ writes = 0
    /\ before = <<>> /\ runs = 0 /\ output = <<>>

\* no pipeline has been constructed
NoPipe ==
    /\ pipeline = <<>> /\ request = <<>> /\ pdf_pages = <<>> /\ stages = <<>>
    /\ final_pdf = <<>>

NoTree == <<>>

Init ==
    /\ self \in ConfigCatalogue
    /\ file \in InputFiles
    /\ pc = "idle"
    /\ lines = NoTree
    /\ elem = <<>>
    /\ i = 0
    /\ candidates = <<>>
    /\ k = 0
    /\ merged_count = 0
    /\ ret = 0
    /\ writes = 0
    /\ before = file
    /\ runs = 1
    /\ output = [path |-> "hocr_path", document |-> <<>>]
    /\ NoCall
    /\ NoSynth
    /\ NoPipe

(***************************************************************************)
(* The steps of Dehyphenator.process_file                                  *)
(***************************************************************************)
\* Dehyphenator._parse_hocr: every word element is named by its place in the document
parsed_lines(f) ==
    [l \in 1..Len(f.lines) |-> [j \in 1..Len(f.lines[l]) |-> <<l, j>>]]

parsed_elements(f) ==
    [id \in UNION {{<<l, j>> : j \in 1..Len(f.lines[l])} : l \in 1..Len(f.lines)}
        |-> f.lines[id[1]][id[2]]]

\* a plausible slip: the last word of the next line is taken
last_and_last(current_words, next_words) ==
    <<current_words[Len(current_words)], next_words[Len(next_words)]>>

\* lines 226-228: last word of the current line, first word of the next line
last_and_first(current_words, next_words) ==
    <<current_words[Len(current_words)], next_words[1]>>

\* a plausible slip: the test for the trailing hyphen is left out
find_at_any_ending(dehyphenator, tree_lines, elements, idx) ==
    LET current_words == tree_lines[idx]
        next_words == tree_lines[idx + 1]
    IN  IF current_words = <<>> \/ next_words = <<>> THEN <<>>
        ELSE LET last_word == current_words[Len(current_words)]
                 first_word == next_words[1]
                 last_text == get_word_text(elements[last_word])
                 first_text == get_word_text(elements[first_word])
             IN  IF last_text = <<>> \/ first_text = <<>> THEN <<>>
                 ELSE evaluate_merge_candidate(dehyphenator, last_word, first_word,
                                               last_text, first_text,
                                               elements[last_word].title,
                                               elements[first_word].title)

\* lines 210-246: what one iteration of the loop appends to candidates
find_at(dehyphenator, tree_lines, elements, idx) ==
    LET current_words == tree_lines[idx]
        next_words == tree_lines[idx + 1]
    IN  IF current_words = <<>> \/ next_words = <<>> THEN <<>>
        ELSE LET pair == last_and_first(current_words, next_words)
                 last_word == pair[1]
                 first_word == pair[2]
                 last_text == get_word_text(elements[last_word])
                 first_text == get_word_text(elements[first_word])
             IN  IF last_text = <<>> \/ first_text = <<>> THEN <<>>
                 ELSE IF ~EndsWithHyphen(last_text) THEN <<>>
                 ELSE evaluate_merge_candidate(dehyphenator, last_word, first_word,
                                               last_text, first_text,
                                               elements[last_word].title,
                                               elements[first_word].title)

\* lines 331-335: first_elem.text = merged_text; every child's text and tail cleared
with_merged_text(element, merged_text) ==
    [element EXCEPT !.text = merged_text,
                    !.kids = [j \in 1..Len(element.kids) |-> [text |-> <<>>, tail |-> <<>>]]]

\* lines 338-343: the title rewritten with the merged box
with_merged_bbox(element, candidate) ==
    [element EXCEPT !.title =
        update_bbox_in_title(element.title,
                             merge_with(candidate.first_bbox, candidate.second_bbox))]

\* lines 346-348: parent.remove(second_elem), where the element has a parent
RemoveFrom(ws, id) == SelectSeq(ws, LAMBDA w : w # id)

\* a plausible slip: the second word is left in its line
without_element_kept(tree_lines, id) == tree_lines

without_element(tree_lines, id) ==
    [l \in 1..Len(tree_lines) |-> RemoveFrom(tree_lines[l], id)]

\* tree.write: the words still attached, line by line
serialized(tree_lines, elements) ==
    HocrFile(TRUE, [l \in 1..Len(tree_lines) |->
                      [j \in 1..Len(tree_lines[l]) |-> elements[tree_lines[l][j]]]])

Reset ==
    /\ lines' = NoTree
    /\ elem' = <<>>
    /\ i' = 0
    /\ candidates' = <<>>
    /\ k' = 0
    /\ merged_count' = 0

\* a plausible slip: the enabled flag is not consulted and the file is processed
ReturnDisabled_flag_ignored ==
    /\ pc = "idle"
    /\ ~self.enabled
    /\ file.parses
    /\ lines' = parsed_lines(file)
    /\ elem' = parsed_elements(file)
    /\ i' = 1
    /\ candidates' = <<>>
    /\ pc' = "find"
    /\ UNCHANGED <<self, file, k, merged_count, ret, writes, before, runs>>
    /\ UNCHANGED <<output, call_vars, synth_vars, pipe_vars>>

\* process_file, lines 138-140: disabled
ReturnDisabled ==
    /\ pc = "idle"
    /\ ~self.enabled
    /\ ret' = 0
    /\ pc' = "done"
    /\ UNCHANGED <<self, file, lines, elem, i, candidates, k, merged_count, writes,
                   before, runs>>
    /\ UNCHANGED <<output, call_vars, synth_vars, pipe_vars>>

\* process_file, lines 148-150: _parse_hocr returned None
ReturnUnparsed ==
    /\ pc = "idle"
    /\ self.enabled
    /\ ~file.parses
    /\ ret' = 0
    /\ pc' = "done"
    /\ UNCHANGED <<self, file, lines, elem, i, candidates, k, merged_count, writes,
                   before, runs>>
    /\ UNCHANGED <<output, call_vars, synth_vars, pipe_vars>>

\* process_file, line 148, and the entry of _find_merge_candidates
Parse ==
    /\ pc = "idle"
    /\ self.enabled
    /\ file.parses
    /\ lines' = parsed_lines(file)
    /\ elem' = parsed_elements(file)
    /\ i' = 1
    /\ candidates' = <<>>
    /\ pc' = "find"
    /\ UNCHANGED <<self, file, k, merged_count, ret, writes, before, runs>>
    /\ UNCHANGED <<output, call_vars, synth_vars, pipe_vars>>

\* one iteration of the loop of _find_merge_candidates
FindStep ==
    /\ pc = "find"
    /\ i <= Len(lines) - 1
    /\ candidates' = candidates \o find_at(self, lines, elem, i)
    /\ i' = i + 1
    /\ UNCHANGED <<self, file, pc, lines, elem, k, merged_count, ret, writes, before, runs>>
    /\ UNCHANGED <<output, call_vars, synth_vars, pipe_vars>>

\* process_file, lines 155-157: no candidates
ReturnNoCandidates ==
    /\ pc = "find"
    /\ i > Len(lines) - 1
    /\ candidates = <<>>
    /\ ret' = 0
    /\ pc' = "done"
    /\ UNCHANGED <<self, file, lines, elem, i, candidates, k, merged_count, writes,
                   before, runs>>
    /\ UNCHANGED <<output, call_vars, synth_vars, pipe_vars>>

\* process_file, line 162: entry of _apply_merges
BeginApply ==
    /\ pc = "find"
    /\ i > Len(lines) - 1
    /\ candidates # <<>>
    /\ merged_count' = 0
    /\ k' = 1
    /\ pc' = "apply"
    /\ UNCHANGED <<self, file, lines, elem, i, candidates, ret, writes, before, runs>>
    /\ UNCHANGED <<output, call_vars, synth_vars, pipe_vars>>

\* one iteration of the loop of _apply_merges. The statements of the try block
\* raise nothing on elements of a parsed tree, so the except branch is not taken;
\* a second element that has no parent any more is simply not removed again.
ApplyStep ==
    /\ pc = "apply"
    /\ k <= Len(candidates)
    /\ LET candidate == candidates[k]
           first_elem == candidate.first_word_element
           second_elem == candidate.second_word_element
       IN  IF candidate.confidence < ConfThreshold
           THEN UNCHANGED <<lines, elem, merged_count>>
           ELSE /\ elem' = [elem EXCEPT ![first_elem] =
                               with_merged_bbox(
                                   with_merged_text(elem[first_elem], candidate.merged_text),
                                   candidate)]
                /\ lines' = without_element(lines, second_elem)
                /\ merged_count' = merged_count + 1
    /\ k' = k + 1
    /\ UNCHANGED <<self, file, pc, i, candidates, ret, writes, before, runs>>
    /\ UNCHANGED <<output, call_vars, synth_vars, pipe_vars>>

\* process_file, lines 165-169: write when something was merged, return the count
WriteAndReturn ==
    /\ pc = "apply"
    /\ k > Len(candidates)
    /\ IF merged_count > 0
       THEN /\ IF output.path = "hocr_path"
               THEN /\ file' = serialized(lines, elem)
                    /\ output' = output
               ELSE /\ output' = [output EXCEPT !.document = serialized(lines, elem)]
                    /\ file' = file
            /\ writes' = writes + 1
       ELSE UNCHANGED <<file, writes, output>>
    /\ ret' = merged_count
    /\ pc' = "done"
    /\ UNCHANGED <<self, lines, elem, i, candidates, k, merged_count, before, runs>>
    /\ UNCHANGED <<call_vars, synth_vars, pipe_vars>>

\* the caller calls process_file on the same path again
CallAgain ==
    /\ pc = "done"
    /\ runs < MaxRuns
    /\ runs' = runs + 1
    /\ before' = file
    /\ pc' = "idle"
    /\ Reset
    /\ UNCHANGED <<self, file, ret, writes>>
    /\ UNCHANGED <<output, call_vars, synth_vars, pipe_vars>>

Next ==
    \/ ReturnDisabled
    \/ ReturnUnparsed
    \/ Parse
    \/ FindStep
    \/ ReturnNoCandidates
    \/ BeginApply
    \/ ApplyStep
    \/ WriteAndReturn
    \/ CallAgain

Spec == Init /\ [][Next]_vars

(***************************************************************************)
(* Vocabulary of the properties                                            *)
(***************************************************************************)
\* the element is still in a line of the tree
Attached(id) == \E l \in 1..Len(lines) : \E j \in 1..Len(lines[l]) : lines[l][j] = id

\* the word as it was in the file when the call began
OriginalWord(id) == before.lines[id[1]][id[2]]

WordCount(f) ==
    LET RECURSIVE Sum(_)
        Sum(ls) == IF ls = <<>> THEN 0 ELSE Len(Head(ls)) + Sum(Tail(ls))
    IN  Sum(f.lines)

\* the candidates already applied by _apply_merges
AppliedIndices ==
    IF pc = "apply" THEN 1..(k - 1)
    ELSE IF pc = "done" THEN 1..Len(candidates)
    ELSE {}

\* the line pairs _find_merge_candidates has already looked at in this call
ExaminedPairs ==
    IF pc = "find" THEN 1..(i - 1)
    ELSE IF pc \in {"apply", "done"} THEN 1..(Len(lines) - 1)
    ELSE {}

LastId(l) == <<l, Len(before.lines[l])>>
FirstId(l) == <<l + 1, 1>>

\* lines l and l+1 both have words, both texts are non-empty, the last one ends in "-"
Eligible(l) ==
    /\ before.lines[l] # <<>>
    /\ before.lines[l + 1] # <<>>
    /\ LET last_text == get_word_text(OriginalWord(LastId(l)))
           first_text == get_word_text(OriginalWord(FirstId(l)))
       IN  /\ last_text # <<>>
           /\ first_text # <<>>
           /\ last_text[Len(last_text)] = "-"

\* the merged text of the pair of lines l and l+1
PairMerged(l) ==
    merged_text_of(get_word_text(OriginalWord(LastId(l))),
                   get_word_text(OriginalWord(FirstId(l))))

\* the candidates recorded for the pair of lines l and l+1
CandidatesFor(l) ==
    {n \in 1..Len(candidates) : candidates[n].first_word_element = LastId(l)}

\* the element is named by no candidate
InNoCandidate(id) ==
    \A n \in 1..Len(candidates) :
        /\ candidates[n].first_word_element # id
        /\ candidates[n].second_word_element # id

\* a pair without candidate changes neither of its words
RejectedPairUntouched(l) ==
    CandidatesFor(l) = {} =>
        \A id \in {LastId(l), FirstId(l)} :
            InNoCandidate(id) => (elem[id] = OriginalWord(id) /\ Attached(id))

ValidBox(b) == b.x2 >= b.x1 /\ b.y2 >= b.y1

Contains(outer, inner) ==
    /\ outer.x1 <= inner.x1
    /\ outer.y1 <= inner.y1
    /\ outer.x2 >= inner.x2
    /\ outer.y2 >= inner.y2

\* m contains a and b, and every rectangle that contains a and b contains m.
\* A smaller rectangle than m, if there were one, would be the hull of a and b,
\* whose edges are edges of a or b: the rectangles tried are those with
\* each edge taken from the same edge of a, b or m.
SmallestContaining(m, a, b) ==
    /\ Contains(m, a)
    /\ Contains(m, b)
    /\ \A r \in [x1 : {a.x1, b.x1, m.x1}, y1 : {a.y1, b.y1, m.y1},
                 x2 : {a.x2, b.x2, m.x2}, y2 : {a.y2, b.y2, m.y2}] :
          (Contains(r, a) /\ Contains(r, b)) => Contains(r, m)

(***************************************************************************)
(* C1. For every pair of adjacent lines whose merge candidate is accepted, *)
(* after process_file the last word of the earlier line carries the merged *)
(* text and the first word of the later line is no longer in that line.    *)
(* Stated as the claim reads; it fails when the later line is one word     *)
(* that is itself the first word of the next accepted candidate.           *)
(***************************************************************************)
C1_MergedTextInEarlierLine ==
    pc = "done" =>
        \A n \in 1..Len(candidates) :
            LET c == candidates[n]
                first == c.first_word_element
                second == c.second_word_element
                l == first[1]
            IN  /\ lines[l] # <<>>
                /\ lines[l][Len(lines[l])] = first
                /\ get_word_text(elem[first]) = c.merged_text
                /\ \A j \in 1..Len(lines[l + 1]) : lines[l + 1][j] # second

(***************************************************************************)
(* C2. process_file returns exactly the number of merges it applied, and   *)
(* the number of words of the page decreases by exactly that number; when  *)
(* nothing is merged it returns 0.                                         *)
(***************************************************************************)
\* the merges whose effect is in the tree: merged text set, second word removed
MergesInTree ==
    {n \in 1..Len(candidates) :
        /\ elem[candidates[n].first_word_element].text = candidates[n].merged_text
        /\ ~Attached(candidates[n].second_word_element)}

C2_ReturnsMergeCount ==
    pc = "done" =>
        /\ ret = Cardinality(MergesInTree)
        /\ WordCount(before) - WordCount(file) = ret
        /\ (file = before => ret = 0)

C2_Witness ==
    /\ pc = "done"
    /\ ret = 2
    /\ WordCount(before) - WordCount(file) = 2

(***************************************************************************)
(* C3. For valid boxes a and b, merge_with gives the smallest rectangle    *)
(* containing both; after an applied merge the surviving word's bbox is    *)
(* that rectangle, computed from the two words' original boxes.            *)
(***************************************************************************)
C3_MergedBoxIsUnion ==
    \A n \in AppliedIndices :
        LET c == candidates[n]
            a == parse_bbox(OriginalWord(c.first_word_element).title)
            b == parse_bbox(OriginalWord(c.second_word_element).title)
            m == parse_bbox(elem[c.first_word_element].title)
        IN  /\ m = Box(Min(a.x1, b.x1), Min(a.y1, b.y1), Max(a.x2, b.x2), Max(a.y2, b.y2))
            /\ (ValidBox(a) /\ ValidBox(b)) => SmallestContaining(m, a, b)

\* num- (4,1,6,2) and ber (1,3,2,15) merged: each box supplies two edges
C3_Witness ==
    /\ pc = "done"
    /\ \E n \in 1..Len(candidates) :
          /\ candidates[n].first_bbox = Box(4, 1, 6, 2)
          /\ candidates[n].second_bbox = Box(1, 3, 2, 15)
          /\ parse_bbox(elem[candidates[n].first_word_element].title) = Box(1, 1, 6, 15)

(***************************************************************************)
(* C4. With an oracle, a candidate that passes the length check is         *)
(* accepted if and only if the merged text is a known word (0.95), or its  *)
(* lower-cased form is known (0.90), or its lower-cased form appears among *)
(* the oracle's first five suggestions (0.70); otherwise it is rejected    *)
(* and neither word is changed.                                            *)
(***************************************************************************)
\* suggestions[:5] as the oracle returns them
RawTop(suggestions) ==
    {suggestions[j] : j \in 1..Min(TopSuggestions, Len(suggestions))}

\* suggestions[:5] compared without regard to case
FoldedTop(suggestions) ==
    {Lower(suggestions[j]) : j \in 1..Min(TopSuggestions, Len(suggestions))}

OracleRule(l, top) ==
    LET m == PairMerged(l)
        d == self.dictionary
        known == m \in d.known
        lower_known == Lower(m) \in d.known
        suggested == Lower(m) \in top
    IN  /\ (CandidatesFor(l) # {}) <=> (known \/ lower_known \/ suggested)
        /\ \A n \in CandidatesFor(l) :
              candidates[n].confidence =
                  IF known THEN ConfKnown
                  ELSE IF lower_known THEN ConfLowerKnown
                  ELSE ConfSuggested
        /\ RejectedPairUntouched(l)

\* the claim as it reads: the suggestions are taken as the oracle spells them
C4_OracleRuleAsClaimed ==
    \A l \in ExaminedPairs :
        (Eligible(l) /\ self.dictionary.present
            /\ Len(PairMerged(l)) >= self.min_word_length)
        => OracleRule(l, RawTop(suggest(self.dictionary, PairMerged(l))))

\* C4 amended: the third case compares the lower-cased merged text with the
\* lower-cased forms of the first five suggestions
C4_OracleRuleCaseFolded ==
    \A l \in ExaminedPairs :
        (Eligible(l) /\ self.dictionary.present
            /\ Len(PairMerged(l)) >= self.min_word_length)
        => OracleRule(l, FoldedTop(suggest(self.dictionary, PairMerged(l))))

\* numb's is unknown, the oracle suggests Numb's: merged with confidence 0.70
C4_Witness ==
    /\ pc = "done"
    /\ self.dictionary.present
    /\ \E n \in 1..Len(candidates) :
          /\ candidates[n].merged_text = StrNumbs
          /\ candidates[n].confidence = ConfSuggested
          /\ StrNumbs \notin RawTop(suggest(self.dictionary, StrNumbs))
          /\ get_word_text(elem[candidates[n].first_word_element]) = StrNumbs

(***************************************************************************)
(* C5. Without an oracle, a candidate that passes the length check is      *)
(* accepted (0.60) if and only if the merged text is alphabetic,           *)
(* optionally containing apostrophes.                                      *)
(***************************************************************************)
AlphabeticWithApostrophes(m) ==
    /\ \A j \in 1..Len(m) : m[j] \in Letters \cup {"'"}
    /\ \E j \in 1..Len(m) : m[j] \in Letters

C5_HeuristicRule ==
    \A l \in ExaminedPairs :
        (Eligible(l) /\ ~self.dictionary.present
            /\ Len(PairMerged(l)) >= self.min_word_length)
        => /\ (CandidatesFor(l) # {}) <=> AlphabeticWithApostrophes(PairMerged(l))
           /\ \A n \in CandidatesFor(l) : candidates[n].confidence = ConfHeuristic
           /\ pc = "done" => CandidatesFor(l) \subseteq MergesInTree

\* num- + ber merged without oracle
C5_Witness ==
    /\ pc = "done"
    /\ ~self.dictionary.present
    /\ ret = 1
    /\ candidates[1].merged_text = StrNumber
    /\ candidates[1].confidence = ConfHeuristic
    /\ get_word_text(elem[candidates[1].first_word_element]) = StrNumber

(***************************************************************************)
(* C6. Only the last word of line i and the first word of line i+1 are     *)
(* paired; a pair is skipped when either line has no words or the last     *)
(* word does not end with a hyphen; no word is merged with a word of a     *)
(* non-adjacent line.                                                      *)
(***************************************************************************)
C6_OnlyAdjacentLines ==
    /\ \A n \in 1..Len(candidates) :
          \E l \in ExaminedPairs :
              /\ candidates[n].first_word_element = LastId(l)
              /\ candidates[n].second_word_element = FirstId(l)
              /\ Eligible(l)
              /\ candidates[n].first_text = get_word_text(OriginalWord(LastId(l)))
              /\ candidates[n].second_text = get_word_text(OriginalWord(FirstId(l)))
    /\ \A id \in DOMAIN elem :
          \/ (elem[id] = OriginalWord(id) /\ Attached(id))
          \/ \E n \in AppliedIndices :
                id \in {candidates[n].first_word_element, candidates[n].second_word_element}

\* a page of three lines whose middle line has no words: nothing is merged across it
C6_Witness ==
    /\ pc = "done"
    /\ Len(before.lines) = 3
    /\ before.lines[1] = <<WordThe, WordNum>>
    /\ before.lines[2] = <<>>
    /\ before.lines[3] = <<WordBer, WordNow>>
    /\ ~self.dictionary.present
    /\ file = before
    /\ ret = 0

(***************************************************************************)
(* C7. The merged text is the last word's text with its trailing hyphen    *)
(* stripped, followed by the next line's first word's text verbatim; no    *)
(* other character of either text is removed.                              *)
(* Stated as the claim reads: exactly one character, the final hyphen, is  *)
(* missing from the concatenation.                                         *)
(***************************************************************************)
C7_OnlyTheTrailingHyphenStripped ==
    \A n \in 1..Len(candidates) :
        LET c == candidates[n]
        IN  c.merged_text =
                SubSeq(c.first_text, 1, Len(c.first_text) - 1) \o c.second_text

(***************************************************************************)
(* C8. A candidate whose merged text is shorter than the configured        *)
(* minimum length (default 4) is never merged: for a- + b the page is      *)
(* unchanged and the count is 0, whatever the oracle answers.              *)
(***************************************************************************)
C8_ShortNeverMerged ==
    /\ \A l \in ExaminedPairs :
          (Eligible(l) /\ Len(PairMerged(l)) < self.min_word_length)
          => (CandidatesFor(l) = {} /\ RejectedPairUntouched(l))
    /\ (pc = "done"
        /\ \A l \in 1..(Len(before.lines) - 1) :
              Eligible(l) => Len(PairMerged(l)) < self.min_word_length)
       => (ret = 0 /\ file = before)

\* a- + b under the default minimum, with an oracle that knows ab
C8_Witness ==
    /\ pc = "done"
    /\ lines # NoTree
    /\ before.lines = << <<WordB, WordA>>, <<WordB, WordA>> >>
    /\ self = Config(TRUE, DefaultMinWordLength, DictionaryA)
    /\ check(self.dictionary, PairMerged(1))
    /\ ret = 0
    /\ file = before

(***************************************************************************)
(* C9. Applied to a page in which no adjacent-line pair yields an accepted *)
(* candidate, process_file returns 0, changes no word or line, and writes  *)
(* nothing.                                                                *)
(***************************************************************************)
NoAcceptedPair ==
    \A l \in 1..(Len(before.lines) - 1) :
        ~(/\ Eligible(l)
          /\ evaluate_merge_candidate(self, LastId(l), FirstId(l),
                                      get_word_text(OriginalWord(LastId(l))),
                                      get_word_text(OriginalWord(FirstId(l))),
                                      OriginalWord(LastId(l)).title,
                                      OriginalWord(FirstId(l)).title) # <<>>)

C9_NothingToMergeChangesNothing ==
    [][NoAcceptedPair =>
          /\ file' = file
          /\ writes' = writes
          /\ (pc' = "done" => ret' = 0)
          /\ (pc \in {"find", "apply"} => (lines' = lines /\ elem' = elem))]_vars

\* the second call on a page the first call has dehyphenated
C9_Witness ==
    /\ pc = "done"
    /\ runs = 2
    /\ lines # NoTree
    /\ NoAcceptedPair
    /\ \E l \in 1..(Len(before.lines) - 1) : Eligible(l)
    /\ writes = 1
    /\ ret = 0
    /\ file = before

(***************************************************************************)
(* C10. When a merge rewrites the first word's bounding box, every         *)
(* non-bbox field of that word's title is preserved verbatim and in the    *)
(* same order, and only the bbox field changes.                            *)
(* Stated as the claim reads; a field is the bbox field when its first     *)
(* token is the word bbox.                                                 *)
(***************************************************************************)
\* the fields of a title, blanks around them removed, empty fields left out
Fields(title) ==
    LET parts == SplitOn(title, ";")
        stripped == [j \in 1..Len(parts) |-> Strip(parts[j])]
    IN  SelectSeq(stripped, LAMBDA f : f # <<>>)

IsBboxField(f) == SplitWhitespace(f)[1] = KwBbox

OtherFields(title) == SelectSeq(Fields(title), LAMBDA f : ~IsBboxField(f))

C10_OtherFieldsPreserved ==
    \A n \in AppliedIndices :
        LET first == candidates[n].first_word_element
        IN  OtherFields(elem[first].title) = OtherFields(OriginalWord(first).title)

(***************************************************************************)
(* C11: parse failure in the dehyphenation entry point                     *)
(***************************************************************************)
\* C11: when neither the strict nor the lenient parser can read the file, the
\* failure reaches the caller of process_file as an error: an enabled call on
\* such a file never comes back as a normal return.
C11_ParseFailureSurfaced ==
    (self.enabled /\ ~before.parses) => pc \in {"idle", "raised"}

(***************************************************************************)
(* Dehyphenator.__init__ and the enchant library                           *)
(***************************************************************************)
\* the outcome of a call: a value, or an exception that leaves the function
Returned(v) == [raised |-> FALSE, value |-> v]
Raised == [raised |-> TRUE, value |-> <<>>]

\* dict.get(key, default)
Get(config, key, default) == IF key \in DOMAIN config THEN config[key] ELSE default

\* What the enchant library does in one environment: whether `import enchant`
\* succeeds, how enchant.Dict(dict_locale) ends, how enchant.Dict('en') ends.
\* "DictNotFoundError" is enchant.errors.DictNotFoundError; "Error" is any other
\* exception (enchant.errors.Error when no tag is given and no default language
\* can be determined, AttributeError for a tag that is no string).
EnchantOutcomes ==
    [available : BOOLEAN,
     first : {"loaded", "DictNotFoundError", "Error"},
     second : {"loaded", "Error"}]

\* the dictionary enchant.Dict(tag) gives where it loads
DictFor(tag) == IF tag = "en" THEN DictionaryB ELSE DictionaryA

\* Dehyphenator.__init__, lines 108-125
Dehyphenator(config, enchant) ==
    LET dict_locale == Get(config, "dictionary", "en_US")
        dehyphenator(d) == Returned(Config(Get(config, "enabled", TRUE),
                                           Get(config, "min_word_length", DefaultMinWordLength),
                                           d))
    IN  IF enchant.available
        THEN CASE enchant.first = "loaded" -> dehyphenator(DictFor(dict_locale))
               [] enchant.first = "DictNotFoundError" ->
                      IF enchant.second = "loaded"
                      THEN dehyphenator(DictFor("en"))
                      ELSE dehyphenator(NoDictionary)
               [] OTHER -> Raised
        ELSE dehyphenator(NoDictionary)

\* the config dictionaries a Dehyphenator is built from
ConstructorConfigs ==
    { <<>>, [enabled |-> FALSE], [min_word_length |-> DefaultMinWordLength - 2],
      [dictionary |-> "fr_FR"],
      [enabled |-> TRUE, dictionary |-> "en", min_word_length |-> DefaultMinWordLength] }

\* pairs of words _evaluate_merge_candidate is then called with
ProbePairs ==
    { <<WordNum, WordBer>>, <<WordNum, WordBer1>>, <<WordA, WordB>>, <<WordNum, WordBs>> }

ConstructInit ==
    /\ arg \in [config : ConstructorConfigs, enchant : EnchantOutcomes]
    /\ result = <<>>
    /\ phase = "ready"
    /\ NoDehyph
    /\ NoSynth
    /\ NoPipe

\* Dehyphenator(config)
Construct ==
    /\ phase = "ready"
    /\ result' = Dehyphenator(arg.config, arg.enchant)
    /\ phase' = "constructed"
    /\ UNCHANGED <<arg, dehyph_vars, synth_vars, pipe_vars>>

\* the constructed object evaluates a pair of words
Evaluate ==
    /\ phase = "constructed"
    /\ ~result.raised
    /\ \E pair \in ProbePairs :
          /\ arg' = [self |-> result.value, first |-> pair[1], second |-> pair[2]]
          /\ result' = evaluate_merge_candidate(result.value, 1, 2,
                           get_word_text(pair[1]), get_word_text(pair[2]),
                           pair[1].title, pair[2].title)
    /\ phase' = "evaluated"
    /\ UNCHANGED <<dehyph_vars, synth_vars, pipe_vars>>

ConstructNext ==
    \/ Construct
    \/ Evaluate

ConstructSpec == ConstructInit /\ [][ConstructNext]_vars

\* the dictionary could not be loaded in this environment
LoadFails(enchant) ==
    \/ ~enchant.available
    \/ enchant.first = "Error"
    \/ enchant.first = "DictNotFoundError" /\ enchant.second = "Error"

\* C12: constructing the Dehyphenator succeeds whatever way the dictionary fails
\* to load, and the object then has no dictionary (so that evaluation uses the
\* alphabetic heuristic alone).
C12_ConstructionNeverFails ==
    (phase = "constructed" /\ LoadFails(arg.enchant))
        => (~result.raised /\ ~result.value.dictionary.present)

\* where construction does succeed without a dictionary, a pair is accepted
\* exactly when the heuristic accepts it, at the heuristic's confidence
C12_HeuristicOnlyAfterFailedLoad ==
    (phase = "evaluated" /\ ~arg.self.dictionary.present)
        => LET merged_text == merged_text_of(get_word_text(arg.first),
                                             get_word_text(arg.second))
           IN  IF Len(merged_text) >= arg.self.min_word_length
                  /\ AlphabeticWithApostrophes(merged_text)
               THEN result # <<>> /\ result[1].confidence = ConfHeuristic
               ELSE result = <<>>

(***************************************************************************)
(* _parse_bbox of the dehyphenator and of the PDF engine                   *)
(***************************************************************************)
\* a plausible slip: the title is split into tokens without cutting it at ';'
engine_parse_bbox_whole_title(title) ==
    LET parts == SplitWhitespace(title)
    IN  IF Len(parts) >= 5 /\ parts[1] = KwBbox /\ \A j \in 2..5 : IsIntToken(parts[j])
        THEN Box(IntOf(parts[2]), IntOf(parts[3]), IntOf(parts[4]), IntOf(parts[5]))
        ELSE ZeroBox

\* PikePDFEngine._parse_bbox; int() raising ValueError is the except branch
engine_parse_bbox(title) ==
    IF title = <<>> THEN ZeroBox
    ELSE LET bbox_part == Strip(SplitOn(title, ";")[1])
             parts == SplitWhitespace(bbox_part)
         IN  IF Len(parts) >= 5 /\ parts[1] = KwBbox
             THEN IF \A j \in 2..5 : IsIntToken(parts[j])
                  THEN Box(IntOf(parts[2]), IntOf(parts[3]), IntOf(parts[4]), IntOf(parts[5]))
                  ELSE ZeroBox
             ELSE ZeroBox

\* longest list of numbers after the keyword of a title's first field
MaxNumbers == 4

\* a token that stands where a coordinate is expected
Token(c, isint, v) == [chars |-> c, integral |-> isint, value |-> v]

CoordinateTokens ==
    { Token(<<"0">>, TRUE, 0), Token(<<"1", "2">>, TRUE, 12), Token(<<"-", "3">>, TRUE, -3),
      Token(<<"1", ".", "5">>, FALSE, 0), Token(<<"x", "2">>, FALSE, 0) }

\* the title attributes _parse_bbox is called with: a first field made of a
\* keyword (or none) and some tokens, then whatever follows the first semicolon
TitleShapes ==
    [keyword : {KwBbox, <<"x", "_", "w", "c", "o", "n", "f">>, <<>>},
     numbers : UNION {[1..m -> CoordinateTokens] : m \in 0..MaxNumbers},
     rest : {<<>>, <<";", " ">> \o TitleBs, <<";">> \o TitleNow}]

RECURSIVE TokensText(_)
TokensText(tokens) ==
    IF tokens = <<>> THEN <<>> ELSE <<" ">> \o Head(tokens).chars \o TokensText(Tail(tokens))

\* the attribute string of a shape
TitleOf(shape) == shape.keyword \o TokensText(shape.numbers) \o shape.rest

ParseBboxInit ==
    /\ arg \in TitleShapes
    /\ result = <<>>
    /\ phase = "ready"
    /\ NoDehyph
    /\ NoSynth
    /\ NoPipe

\* both _parse_bbox methods are called with the title
ParseBbox ==
    /\ phase = "ready"
    /\ result' = [dehyphenator |-> parse_bbox(TitleOf(arg)),
                  engine |-> engine_parse_bbox(TitleOf(arg))]
    /\ phase' = "called"
    /\ UNCHANGED <<arg, dehyph_vars, synth_vars, pipe_vars>>

ParseBboxSpec == ParseBboxInit /\ [][ParseBbox]_vars

\* the first field is 'bbox' followed by exactly four integers
WellFormedFirstField(shape) ==
    /\ shape.keyword = KwBbox
    /\ Len(shape.numbers) = 4
    /\ \A j \in 1..4 : shape.numbers[j].integral

\* the bbox field is missing, has too few numbers or a non-integer coordinate
MalformedFirstField(shape) ==
    \/ shape.keyword # KwBbox
    \/ Len(shape.numbers) < 4
    \/ \E j \in 1..4 : ~shape.numbers[j].integral

\* C13: a title whose bbox field is missing, has too few numbers or has a
\* non-integer coordinate parses to (0,0,0,0) in both modules; a well-formed
\* first field 'bbox x1 y1 x2 y2' parses to exactly those four integers,
\* whatever follows the first semicolon.
C13_ParseBboxTotal ==
    phase = "called" =>
        /\ MalformedFirstField(arg) =>
               (result.dehyphenator = ZeroBox /\ result.engine = ZeroBox)
        /\ WellFormedFirstField(arg) =>
               LET expected == Box(arg.numbers[1].value, arg.numbers[2].value,
                                   arg.numbers[3].value, arg.numbers[4].value)
               IN  result.dehyphenator = expected /\ result.engine = expected

\* the box of 'bbox 12 0 -3 12' followed by another field has been parsed
C13_Witness ==
    /\ phase = "called"
    /\ WellFormedFirstField(arg)
    /\ arg.rest # <<>>
    /\ result.engine = Box(12, 0, -3, 12)
    /\ result.dehyphenator = Box(12, 0, -3, 12)

(***************************************************************************)
(* C14: the disabled dehyphenator                                          *)
(***************************************************************************)
\* C14: with dehyphenation disabled, process_file returns 0 and the file stays
\* what it was when the call began, whatever it contains: nothing is parsed,
\* nothing is written.
C14_DisabledChangesNothing ==
    ~self.enabled =>
        /\ file = before
        /\ writes = 0
        /\ lines = NoTree
        /\ pc \in {"idle", "done"}
        /\ pc = "done" => ret = 0

\* a disabled call has returned on a page that an enabled one would merge
C14_Witness ==
    /\ ~self.enabled
    /\ pc = "done"
    /\ file = HocrFile(TRUE, << <<WordThe, WordNum>>, <<WordBer, WordNow>> >>)

(***************************************************************************)
(* PikePDFEngine: text of an element, escaping, numbers as they are        *)
(* written into the content stream                                         *)
(***************************************************************************)
\* BoundingBox.width and BoundingBox.height of pikepdf_engine.py
width(bbox) == bbox.x2 - bbox.x1
height(bbox) == bbox.y2 - bbox.y1

\* PikePDFEngine._get_element_text: element.text and the tail of every child
RECURSIVE KidsTails(_)
KidsTails(kids) ==
    IF kids = <<>> THEN <<>> ELSE Head(kids).tail \o KidsTails(Tail(kids))

get_element_text(element) == Strip(element.text \o KidsTails(element.kids))

\* The characters outside ASCII, each written as its code point: the ten keys
\* of the replacements table, then e-acute and the euro sign, which are not in it.
NonAscii ==
    {"U+2018", "U+2019", "U+201C", "U+201D", "U+2013", "U+2014", "U+2026", "U+00A0",
     "U+FB01", "U+FB02", "U+00E9", "U+20AC"}

\* the replacements table, lines 638-649, in the order of its entries
replacements ==
    << <<"U+2018", <<"'">> >>, <<"U+2019", <<"'">> >>,
       <<"U+201C", <<"\"">> >>, <<"U+201D", <<"\"">> >>,
       <<"U+2013", <<"-">> >>, <<"U+2014", <<"-">> >>,
       <<"U+2026", <<".", ".", ".">> >>, <<"U+00A0", <<" ">> >>,
       <<"U+FB01", <<"f", "i">> >>, <<"U+FB02", <<"f", "l">> >> >>

\* text.encode('ascii') succeeds
IsAsciiText(text) == \A j \in 1..Len(text) : text[j] \notin NonAscii

\* str.replace(old, new) for a one-character old
RECURSIVE Replace(_, _, _)
Replace(text, old, new) ==
    IF text = <<>> THEN <<>>
    ELSE (IF Head(text) = old THEN new ELSE <<Head(text)>>) \o Replace(Tail(text), old, new)

\* lines 651-652: the replacements applied one after the other, from entry j on
RECURSIVE Normalized(_, _)
Normalized(text, j) ==
    IF j > Len(replacements) THEN text
    ELSE Normalized(Replace(text, replacements[j][1], replacements[j][2]), j + 1)

\* text.encode('ascii', errors='ignore').decode('ascii')
DropNonAscii(text) == SelectSeq(text, LAMBDA c : c \notin NonAscii)

\* lines 622-624, 657-659, 665-667: backslash first, then the two parentheses
EscapeDelimiters(text) ==
    Replace(Replace(Replace(text, "\\", <<"\\", "\\">>), "(", <<"\\", "(">>),
            ")", <<"\\", ")">>)

\* lines 625-627
EscapeControls(text) ==
    Replace(Replace(Replace(text, "\n", <<"\\", "n">>), "\r", <<"\\", "r">>),
            "\t", <<"\\", "t">>)

\* a plausible slip: what is left outside ASCII is kept instead of dropped
escape_pdf_string_keeping(text) ==
    IF IsAsciiText(text) THEN EscapeControls(EscapeDelimiters(text))
    ELSE EscapeDelimiters(Normalized(text, 1))

\* PikePDFEngine._escape_pdf_string; the bytes of an ASCII text are its characters
escape_pdf_string(text) ==
    IF IsAsciiText(text)
    THEN EscapeControls(EscapeDelimiters(text))
    ELSE LET replaced == Normalized(text, 1)
         IN  IF IsAsciiText(replaced)
             THEN EscapeDelimiters(replaced)
             ELSE EscapeDelimiters(DropNonAscii(replaced))

\* f"{a / b:.2f}" and f"{a / b:.1f}" for b > 0: a / b scaled and rounded to the
\* nearest integer, a tie going to the even one
RoundHalfEven(a, b) ==
    LET q == a \div b
        r == a % b
    IN  IF 2 * r < b THEN q
        ELSE IF 2 * r > b THEN q + 1
        ELSE IF q % 2 = 0 THEN q ELSE q + 1

(***************************************************************************)
(* PikePDFEngine: the text layer and the image layer                       *)
(***************************************************************************)
\* line 166: 72 points to the inch
PointsPerInch == 72
\* line 107: rendering_mode of the default configuration
DefaultRenderingMode == 3
\* line 118: font_size_ratio of the default configuration, 0.75, in hundredths
FontSizeRatioPercent == 75
\* line 394: the smallest font size
MinFontSize == 4
\* line 434
WORD_SPACE_KERN == -300
\* line 301
Y_TOLERANCE == 10

\* (p / dpi) * 72.0 : the model keeps the numerator p * 72 of a length in points
\* and divides by dpi where the number is written into an instruction
Points(p) == p * PointsPerInch

\* lines 384-401: word_data, in the order of the words; font_size is kept as
\* the numerator over 100 * dpi
RECURSIVE word_data_of(_, _)
word_data_of(ws, dpi) ==
    IF ws = <<>> THEN <<>>
    ELSE LET word == Head(ws)
             word_text == get_element_text(word)
             bbox == engine_parse_bbox(word.title)
         IN  (IF word_text = <<>> \/ width(bbox) <= 0 \/ height(bbox) <= 0
              THEN <<>>
              ELSE << [text |-> word_text,
                       x_pt |-> Points(bbox.x1),
                       font_size |-> Max(MinFontSize * 100 * dpi,
                                         Points(height(bbox)) * FontSizeRatioPercent),
                       bbox |-> bbox] >>)
             \o word_data_of(Tail(ws), dpi)

\* sum(w['font_size'] for w in word_data)
RECURSIVE SumFontSize(_)
SumFontSize(word_data) ==
    IF word_data = <<>> THEN 0 ELSE Head(word_data).font_size + SumFontSize(Tail(word_data))

\* the elements of a TJ array: a number, or a literal string between parentheses
Number(v) == [kind |-> "number", value |-> v, run |-> <<>>]
Literal(chars) == [kind |-> "literal", value |-> 0, run |-> chars]

\* lines 433-445: tj_parts
RECURSIVE tj_parts(_)
tj_parts(word_data) ==
    IF word_data = <<>> THEN <<>>
    ELSE LET last == Len(word_data)
         IN  tj_parts(SubSeq(word_data, 1, last - 1))
             \o (IF last > 1 THEN <<Number(WORD_SPACE_KERN), Literal(<<" ">>)>> ELSE <<>>)
             \o <<Literal(escape_pdf_string(word_data[last].text))>>

\* PikePDFEngine._build_line_with_tj: the instructions it appends to content
\* (the count it returns is used for logging only)
build_line_with_tj(ws, line_y_pt, dpi) ==
    LET word_data == word_data_of(ws, dpi)
    IN  IF word_data = <<>> THEN <<>>
        ELSE << [op |-> "BT"],
                [op |-> "Tr", mode |-> DefaultRenderingMode],
                [op |-> "Tf", font |-> "F1",
                 size |-> RoundHalfEven(10 * SumFontSize(word_data),
                                        100 * dpi * Len(word_data))],
                [op |-> "Tm", x |-> RoundHalfEven(100 * word_data[1].x_pt, dpi),
                              y |-> RoundHalfEven(100 * line_y_pt, dpi)],
                [op |-> "TJ", array |-> tj_parts(word_data)],
                [op |-> "ET"] >>

\* a plausible slip: the image is painted without the enclosing save and restore
build_image_layer_bare(width_pt, height_pt, dpi) ==
    << [op |-> "cm", w |-> RoundHalfEven(100 * width_pt, dpi),
                     h |-> RoundHalfEven(100 * height_pt, dpi)],
       [op |-> "Do", name |-> "Im1"] >>

\* PikePDFEngine._build_image_layer
build_image_layer(width_pt, height_pt, dpi) ==
    << [op |-> "q"],
       [op |-> "cm", w |-> RoundHalfEven(100 * width_pt, dpi),
                     h |-> RoundHalfEven(100 * height_pt, dpi)],
       [op |-> "Do", name |-> "Im1"],
       [op |-> "Q"] >>

\* a plausible slip: the words are grouped in document order
sorted_by_key_unsorted(ws) == ws

\* sorted(words, key=get_sort_key), lines 303-307: the keys (y1, x1) are
\* compared as tuples; the sort is stable, so a word goes behind its equals
RECURSIVE sorted_by_key(_)
sorted_by_key(ws) ==
    IF ws = <<>> THEN <<>>
    ELSE LET last == ws[Len(ws)]
             front == sorted_by_key(SubSeq(ws, 1, Len(ws) - 1))
             key_le(a, b) ==
                 LET ka == engine_parse_bbox(a.title)
                     kb == engine_parse_bbox(b.title)
                 IN  ka.y1 < kb.y1 \/ (ka.y1 = kb.y1 /\ ka.x1 <= kb.x1)
         IN  SelectSeq(front, LAMBDA w : key_le(w, last)) \o <<last>>
             \o SelectSeq(front, LAMBDA w : ~key_le(w, last))

\* PikePDFEngine._parse_hocr: the strict parser, then on XMLSyntaxError the
\* lenient one; whatever is raised leaves as RuntimeError
engine_parse_hocr(hocr) ==
    IF hocr.strict = "parsed"
    THEN [raised |-> FALSE, value |-> hocr.document, tried |-> <<"strict">>]
    ELSE IF hocr.strict = "XMLSyntaxError"
    THEN IF hocr.lenient = "parsed"
         THEN [raised |-> FALSE, value |-> hocr.document, tried |-> <<"strict", "lenient">>]
         ELSE [raised |-> TRUE, value |-> <<>>, tried |-> <<"strict", "lenient">>]
    ELSE [raised |-> TRUE, value |-> <<>>, tried |-> <<"strict">>]

(***************************************************************************)
(* PikePDFEngine.create_searchable_page: the pages it is called with       *)
(***************************************************************************)
\* longest list of words of a page without line elements
MaxLoose == 3

\* "bbox a b c d"
BoxTitle(a, b, c, d) == to_title_string(Box(a, b, c, d))

\* Words of a scanned page. Low starts lower than Hello and World and to the
\* left of them; Note is "(...)" with the ellipsis character, which the
\* replacements table knows.
PageWords ==
    [Hello |-> Word(<<"H","e","l","l","o">>, NoKids,
                    BoxTitle(100, 100, 200, 130) \o <<";", " ">> \o TitleBs),
     World |-> Word(<<"W","o","r","l","d">>, NoKids, BoxTitle(220, 100, 400, 130)),
     Low |-> Word(<<"l","o","w">>, NoKids, BoxTitle(50, 105, 90, 135)),
     Next |-> Word(<<"n","e","x","t">>, NoKids, BoxTitle(100, 111, 200, 141)),
     Note |-> Word(<<"(", "U+2026", ")">>, NoKids, BoxTitle(420, 100, 500, 130))]

\* an ocr_line element: its title and its ocrx_word elements
Line(ti, ws) == [title |-> ti, words |-> ws]

SynthLineCatalogue ==
    { Line(BoxTitle(100, 100, 400, 130), <<PageWords.Hello, PageWords.World>>),
      Line(BoxTitle(50, 111, 500, 141), <<WordBlank, PageWords.Next, PageWords.Note>>),
      Line(<<>>, <<WordB, WordBlank>>),
      Line(TitleBer1, <<WordNumUpper, WordBer>>),
      Line(TitleNow, <<>>),
      Line(TitleThe, <<WordNumUpper>>) }

LooseCatalogue ==
    {PageWords.Hello, PageWords.World, PageWords.Low, PageWords.Next, WordBlank}

\* the document a parser reads from the file: its ocr_line elements, and the
\* ocrx_word elements that are in no line
Documents ==
    {[lines |-> ls, loose |-> <<>>] :
        ls \in UNION {[1..m -> SynthLineCatalogue] : m \in 1..MaxLines}}
    \cup {[lines |-> <<>>, loose |-> ws] :
        ws \in UNION {[1..m -> LooseCatalogue] : m \in 0..MaxLoose}}

\* the file at hocr_path: how each parser ends on it, and what it holds
HocrPages ==
    {[strict |-> "parsed", lenient |-> "parsed", document |-> d] : d \in Documents}
    \cup {[strict |-> "XMLSyntaxError", lenient |-> "parsed", document |-> d] :
             d \in Documents}
    \cup {[strict |-> a, lenient |-> "XMLSyntaxError",
           document |-> [lines |-> <<>>, loose |-> <<>>]] :
             a \in {"XMLSyntaxError", "OSError"}}

DpiValues == {72, 250, 300}

SynthInit ==
    /\ job \in [hocr : HocrPages, dpi : DpiValues,
                image : {[width_px |-> 2550, height_px |-> 3300]}]
    /\ spc = "start"
    /\ tree = <<>>
    /\ parsers = <<>>
    /\ content = <<>>
    /\ line_no = 0
    /\ sorted_words = <<>>
    /\ current_line = <<>>
    /\ current_y = <<>>
    /\ NoDehyph
    /\ NoCall
    /\ NoPipe

\* page_height_pt - (y2 / dpi) * 72.0, as a numerator over dpi
line_y_pt_of(bbox) == Points(job.image.height_px) - Points(bbox.y2)

(***************************************************************************)
(* The steps of PikePDFEngine.create_searchable_page, from line 175 on     *)
(* (the image has been opened and compressed)                              *)
(***************************************************************************)
\* line 175 fails: RuntimeError leaves create_searchable_page
ParseHocrRaises ==
    /\ spc = "start"
    /\ engine_parse_hocr(job.hocr).raised
    /\ parsers' = engine_parse_hocr(job.hocr).tried
    /\ spc' = "raised"
    /\ UNCHANGED <<job, tree, content, line_no, sorted_words, current_line, current_y>>
    /\ UNCHANGED <<dehyph_vars, call_vars, pipe_vars>>

\* line 175, and the entry of _build_text_layer up to one of its two loops
\* (lines 254-269 and 292-311)
ParseHocr ==
    /\ spc = "start"
    /\ LET parsed == engine_parse_hocr(job.hocr)
       IN  /\ ~parsed.raised
           /\ tree' = parsed.value
           /\ parsers' = parsed.tried
           /\ IF parsed.value.lines # <<>>
              THEN /\ spc' = "lines"
                   /\ sorted_words' = <<>>
              ELSE /\ spc' = "fallback"
                   /\ sorted_words' = sorted_by_key(parsed.value.loose)
    /\ line_no' = 1
    /\ content' = <<>>
    /\ current_line' = <<>>
    /\ current_y' = <<>>
    /\ UNCHANGED job
    /\ UNCHANGED <<dehyph_vars, call_vars, pipe_vars>>

\* one iteration of the loop over the lines, lines 271-290
LineStep ==
    /\ spc = "lines"
    /\ line_no <= Len(tree.lines)
    /\ LET line == tree.lines[line_no]
           line_bbox == engine_parse_bbox(line.title)
       IN  content' = content \o
               (IF line.words = <<>> THEN <<>>
                ELSE build_line_with_tj(line.words, line_y_pt_of(line_bbox), job.dpi))
    /\ line_no' = line_no + 1
    /\ UNCHANGED <<job, spc, tree, parsers, sorted_words, current_line, current_y>>
    /\ UNCHANGED <<dehyph_vars, call_vars, pipe_vars>>

\* lines 323-327 and 338-342: the group collected so far becomes a line
group_as_line(group) ==
    IF group = <<>> THEN <<>>
    ELSE build_line_with_tj(group, line_y_pt_of(engine_parse_bbox(group[1].title)),
                            job.dpi)

\* one iteration of the loop over the sorted words, lines 313-334;
\* current_y is <<>> for None
FallbackStep ==
    /\ spc = "fallback"
    /\ line_no <= Len(sorted_words)
    /\ LET word == sorted_words[line_no]
           bbox == engine_parse_bbox(word.title)
           distance == IF current_y = <<>> THEN 0
                       ELSE Max(bbox.y1 - current_y[1], current_y[1] - bbox.y1)
       IN  IF current_y = <<>> \/ distance <= Y_TOLERANCE
           THEN /\ current_line' = Append(current_line, word)
                /\ current_y' = IF current_y = <<>> THEN <<bbox.y1>> ELSE current_y
                /\ content' = content
           ELSE /\ content' = content \o group_as_line(current_line)
                /\ current_line' = <<word>>
                /\ current_y' = <<bbox.y1>>
    /\ line_no' = line_no + 1
    /\ UNCHANGED <<job, spc, tree, parsers, sorted_words>>
    /\ UNCHANGED <<dehyph_vars, call_vars, pipe_vars>>

\* lines 336-345: the last group
FallbackFlush ==
    /\ spc = "fallback"
    /\ line_no > Len(sorted_words)
    /\ content' = content \o group_as_line(current_line)
    /\ spc' = "image"
    /\ UNCHANGED <<job, tree, parsers, line_no, sorted_words, current_line, current_y>>
    /\ UNCHANGED <<dehyph_vars, call_vars, pipe_vars>>

\* lines 186-187: the image layer is appended to the text layer
BuildImageLayer ==
    /\ spc = "image" \/ (spc = "lines" /\ line_no > Len(tree.lines))
    /\ content' = content \o build_image_layer(Points(job.image.width_px),
                                               Points(job.image.height_px), job.dpi)
    /\ spc' = "done"
    /\ UNCHANGED <<job, tree, parsers, line_no, sorted_words, current_line, current_y>>
    /\ UNCHANGED <<dehyph_vars, call_vars, pipe_vars>>

SynthNext ==
    \/ ParseHocrRaises
    \/ ParseHocr
    \/ LineStep
    \/ FallbackStep
    \/ FallbackFlush
    \/ BuildImageLayer

SynthSpec == SynthInit /\ [][SynthNext]_vars

\* C11, for the page synthesizer: the strict parser is tried first and the
\* lenient one only after the strict one failed; when neither reads the file
\* create_searchable_page raises and no instruction has been built.
C11_SynthesizerRaises ==
    /\ parsers \in {<<>>, <<"strict">>, <<"strict", "lenient">>}
    /\ (parsers = <<"strict", "lenient">>) => job.hocr.strict # "parsed"
    /\ (spc # "start" /\ job.hocr.strict # "parsed" /\ job.hocr.lenient # "parsed")
           => (spc = "raised" /\ content = <<>> /\ tree = <<>>)

(***************************************************************************)
(* Vocabulary of the properties of a synthesized page                      *)
(***************************************************************************)
\* the text of a word element: all the text inside it, without the blanks around
TextOf(word) == Strip(word.text \o KidsText(word.kids))

\* a usable word: non-empty text, a box of positive width and height
UsableWord(word) ==
    /\ TextOf(word) # <<>>
    /\ LET box == engine_parse_bbox(word.title)
       IN  box.x2 - box.x1 > 0 /\ box.y2 - box.y1 > 0

UsableWords(ws) == SelectSeq(ws, UsableWord)

\* the lines of the page that have at least one usable word, in page order
LinesWithWords == SelectSeq(tree.lines, LAMBDA l : UsableWords(l.words) # <<>>)

\* the instructions of one kind, in the order of the content
Instructions(kind) == SelectSeq(content, LAMBDA c : c.op = kind)

\* the literal strings of a TJ array that stand for words: every element but
\* the kern and the blank that separate two words
WordRuns(array) ==
    [j \in 1..((Len(array) + 2) \div 3) |-> array[3 * j - 2].run]

\* a text as it stands between the parentheses of a literal string
RECURSIVE Unescaped(_)
Unescaped(run) ==
    IF run = <<>> THEN <<>>
    ELSE IF Head(run) = "\\" /\ Len(run) >= 2
    THEN <<CASE run[2] = "n" -> "\n" [] run[2] = "r" -> "\r" [] run[2] = "t" -> "\t"
               [] OTHER -> run[2]>> \o Unescaped(SubSeq(run, 3, Len(run)))
    ELSE <<Head(run)>> \o Unescaped(Tail(run))

\* a text with the characters of the replacements table written in ASCII
InAscii(text) == DropNonAscii(Normalized(text, 1))

\* the page went through the loop over its line elements and is complete
LinePageDone == spc = "done" /\ tree.lines # <<>>

(***************************************************************************)
(* C15: one text object per line with a usable word                        *)
(***************************************************************************)
\* C15: a synthesized page has exactly one text object for each line that has
\* at least one usable word, in line order (the k-th text object begins with
\* the first usable word of the k-th such line), and none for a line without
\* a usable word.
C15_OneTextObjectPerUsableLine ==
    LinePageDone =>
        /\ Len(Instructions("BT")) = Len(LinesWithWords)
        /\ Len(Instructions("ET")) = Len(LinesWithWords)
        /\ Len(Instructions("TJ")) = Len(LinesWithWords)
        /\ \A j \in 1..Min(Len(Instructions("TJ")), Len(LinesWithWords)) :
               LET shown == WordRuns(Instructions("TJ")[j].array)
                   ws == UsableWords(LinesWithWords[j].words)
               IN  Unescaped(shown[1]) = InAscii(TextOf(ws[1]))

(***************************************************************************)
(* C16: the image layer                                                    *)
(***************************************************************************)
\* v hundredths is a / dpi written with two decimals
WrittenAs(v, a) ==
    LET d == v * job.dpi - 100 * a
    IN  2 * d <= job.dpi /\ 2 * (0 - d) <= job.dpi

\* C16: in every synthesized page the image-paint quadruple (save state, scale
\* to the page size, paint the image, restore state) appears exactly once, as
\* the last four instructions and so after every text object, also when the
\* page has no text; before the page is complete nothing of it is in the content.
C16_ImageQuadrupleLast ==
    /\ spc = "done" =>
           LET last == Len(content)
           IN  /\ last >= 4
               /\ content[last - 3].op = "q"
               /\ content[last - 2].op = "cm"
               /\ WrittenAs(content[last - 2].w, job.image.width_px * 72)
               /\ WrittenAs(content[last - 2].h, job.image.height_px * 72)
               /\ content[last - 1].op = "Do"
               /\ content[last].op = "Q"
               /\ \A j \in 1..(last - 4) :
                      content[j].op \in {"BT", "Tr", "Tf", "Tm", "TJ", "ET"}
    /\ spc \in {"start", "lines", "fallback", "image", "raised"} =>
           \A j \in 1..Len(content) : content[j].op \notin {"q", "cm", "Do", "Q"}

\* a page with two text objects is complete
C16_Witness ==
    /\ spc = "done"
    /\ Len(Instructions("BT")) = 2
    /\ Len(content) = 16

(***************************************************************************)
(* C17: the spacing inside a line                                          *)
(***************************************************************************)
\* C17: for every line with n >= 2 usable words, the TJ array of its text
\* object holds the n words in line order and between them exactly n - 1
\* spacing adjustments, each of magnitude below 1000 and each followed by a
\* literal blank.
C17_SpacingBetweenWords ==
    LinePageDone =>
        \A j \in 1..Len(LinesWithWords) :
            LET ws == UsableWords(LinesWithWords[j].words)
                count == Len(ws)
            IN  count >= 2 =>
                    /\ j <= Len(Instructions("TJ"))
                    /\ LET array == Instructions("TJ")[j].array
                       IN  /\ Len(array) = 3 * count - 2
                           /\ \A m \in 1..count :
                                  /\ array[3 * m - 2].kind = "literal"
                                  /\ Unescaped(array[3 * m - 2].run) = InAscii(TextOf(ws[m]))
                           /\ \A m \in 1..(count - 1) :
                                  /\ array[3 * m - 1].kind = "number"
                                  /\ array[3 * m - 1].value < 1000
                                  /\ array[3 * m - 1].value > -1000
                                  /\ array[3 * m].kind = "literal"
                                  /\ array[3 * m].run = <<" ">>

(***************************************************************************)
(* C18: where a text object is placed                                      *)
(***************************************************************************)
\* C18: the text object of a line is positioned at X = x1 / dpi * 72 of the
\* line's first usable word and at Y = page height - y2 / dpi * 72 of the
\* line's box, both in points as the instruction writes them, with two
\* decimals; a first word at x1 = 100 is at 24.00 when dpi is 300.
C18_TextObjectPosition ==
    LinePageDone =>
        \A j \in 1..Len(LinesWithWords) :
            LET line == LinesWithWords[j]
                first == UsableWords(line.words)[1]
                x1 == engine_parse_bbox(first.title).x1
                y2 == engine_parse_bbox(line.title).y2
            IN  /\ j <= Len(Instructions("Tm"))
                /\ WrittenAs(Instructions("Tm")[j].x, x1 * 72)
                /\ WrittenAs(Instructions("Tm")[j].y, (job.image.height_px - y2) * 72)
                /\ (x1 = 100 /\ job.dpi = 300) => Instructions("Tm")[j].x = 2400

(***************************************************************************)
(* PikePDFEngine._escape_pdf_string on its own                             *)
(***************************************************************************)
\* longest word text
MaxText == 3

\* the characters of a word text: a letter, the three delimiters, the three
\* control characters, three keys of the replacements table and e-acute
TextAlphabet ==
    {"a", "n", "\\", "(", ")", "\n", "\r", "\t", "U+2019", "U+2026", "U+FB01", "U+00E9"}

\* word_text as _build_line_with_tj passes it on: stripped and not empty
EscapeInit ==
    /\ arg \in {t \in UNION {[1..m -> TextAlphabet] : m \in 1..MaxText} : Strip(t) = t}
    /\ result = <<>>
    /\ phase = "ready"
    /\ NoDehyph
    /\ NoSynth
    /\ NoPipe

\* self._escape_pdf_string(wd['text'])
Escape ==
    /\ phase = "ready"
    /\ result' = escape_pdf_string(arg)
    /\ phase' = "called"
    /\ UNCHANGED <<arg, dehyph_vars, synth_vars, pipe_vars>>

EscapeSpec == EscapeInit /\ [][Escape]_vars

\* every backslash of a literal run escapes the character after it, and no
\* parenthesis stands without a backslash before it
RECURSIVE WellEscaped(_)
WellEscaped(run) ==
    IF run = <<>> THEN TRUE
    ELSE IF Head(run) = "\\"
    THEN Len(run) >= 2 /\ WellEscaped(SubSeq(run, 3, Len(run)))
    ELSE Head(run) \notin {"(", ")"} /\ WellEscaped(Tail(run))

\* C19: for every word text the emitted literal run has every backslash and
\* parenthesis escaped by a backslash and holds no raw newline, carriage
\* return or tab, also when the text holds characters outside ASCII.
C19_LiteralRunEscaped ==
    phase = "called" =>
        /\ WellEscaped(result)
        /\ \A j \in 1..Len(result) : result[j] \notin {"\n", "\r", "\t"}

\* what one character of a text becomes: the ASCII equivalent of the table,
\* nothing for any other character outside ASCII, itself otherwise
AsciiFor(c) ==
    CASE c \in {"U+2018", "U+2019"} -> <<"'">>
      [] c \in {"U+201C", "U+201D"} -> <<"\"">>
      [] c \in {"U+2013", "U+2014"} -> <<"-">>
      [] c = "U+2026" -> <<".", ".", ".">>
      [] c = "U+00A0" -> <<" ">>
      [] c = "U+FB01" -> <<"f", "i">>
      [] c = "U+FB02" -> <<"f", "l">>
      [] c \in {"U+00E9", "U+20AC"} -> <<>>
      [] OTHER -> <<c>>

RECURSIVE AsciiForm(_)
AsciiForm(text) ==
    IF text = <<>> THEN <<>> ELSE AsciiFor(Head(text)) \o AsciiForm(Tail(text))

RECURSIVE KeysOf(_)
KeysOf(ws) ==
    IF ws = <<>> THEN <<>>
    ELSE LET box == engine_parse_bbox(Head(ws).title)
         IN  <<<<box.y1, box.x1>>>> \o KeysOf(Tail(ws))

KeyAtMost(a, b) == a[1] < b[1] \/ (a[1] = b[1] /\ a[2] <= b[2])

\* how often a word occurs in a list
Occurrences(ws, w) == Cardinality({j \in 1..Len(ws) : ws[j] = w})

\* for each of the first n sorted words, the index at which its group
\* starts: a word stays in the group of the word before it when its y1 is
\* within the tolerance of the y1 of that group's first word
RECURSIVE StartsUpTo(_, _)
StartsUpTo(keys, n) ==
    IF n = 0 THEN <<>>
    ELSE LET earlier == StartsUpTo(keys, n - 1)
             s == IF n = 1 THEN 1 ELSE earlier[n - 1]
             d == keys[n][1] - keys[s][1]
         IN  Append(earlier, IF d <= 10 /\ 0 - d <= 10 THEN s ELSE n)

StartsOf(ws) == StartsUpTo(KeysOf(ws), Len(ws))

\* the words of the group that starts at s
GroupAt(ws, starts, s) ==
    SubSeq(ws, s, s + Cardinality({j \in 1..Len(ws) : starts[j] = s}) - 1)

\* the instructions of the groups that start at s or later, one line each
RECURSIVE GroupsAsLines(_, _, _)
GroupsAsLines(ws, starts, s) ==
    IF s > Len(ws) THEN <<>>
    ELSE LET group == GroupAt(ws, starts, s)
         IN  group_as_line(group) \o GroupsAsLines(ws, starts, s + Len(group))

LoosePageGrouped == spc \in {"image", "done"} /\ tree.lines = <<>>

\* C21: on a page without line elements the words are sorted by (y1, x1), a
\* word stays in the current group exactly when its y1 is within 10 pixels of
\* the y1 of the group's first word, every word is in exactly one group, and
\* the text layer is the groups' lines, one line built from each group.
C21_GreedyGrouping ==
    /\ spc = "fallback" =>
          LET keys == KeysOf(sorted_words)
              starts == StartsUpTo(keys, Len(sorted_words))
          IN  /\ \A w \in LooseCatalogue :
                     Occurrences(sorted_words, w) = Occurrences(tree.loose, w)
              /\ \A a, b \in 1..Len(sorted_words) : a < b => KeyAtMost(keys[a], keys[b])
              /\ line_no > 1 =>
                     current_line = SubSeq(sorted_words, starts[line_no - 1], line_no - 1)
    /\ LoosePageGrouped =>
          LET starts == StartsOf(sorted_words)
          IN  /\ \A j \in 1..Len(sorted_words) :
                     /\ starts[j] <= j
                     /\ sorted_words[j] =
                            GroupAt(sorted_words, starts, starts[j])[j - starts[j] + 1]
              /\ SelectSeq(content, LAMBDA c : c.op \notin {"q", "cm", "Do", "Q"})
                     = GroupsAsLines(sorted_words, starts, 1)

\* Next (y1 111), Low (105) and Hello (100) in no line: Low joins Hello's
\* group, Next is 11 below Hello and starts a second group
C21_Witness ==
    /\ spc = "done"
    /\ tree.loose = <<PageWords.Next, PageWords.Low, PageWords.Hello>>
    /\ sorted_words = <<PageWords.Hello, PageWords.Low, PageWords.Next>>
    /\ Len(Instructions("BT")) = 2

(***************************************************************************)
(* MorphicPipeline: initialize, process_pdf and process_images             *)
(***************************************************************************)
\* most pages of one input, and most process_* calls on one pipeline
MaxPages == 2
MaxCalls == 2

\* the page images an input can hold
ImageCatalogue == {"scanA", "scanB"}

\* MorphicPipeline.__init__: nothing is initialized, temp_dir is None; the
\* configuration enables dehyphenation or not
PipelineInit ==
    /\ pipeline \in {[initialized |-> FALSE, enabled |-> e, temp_dir |-> "None", files |-> {}] :
                        e \in BOOLEAN}
    /\ request = [method |-> "none", images |-> <<>>, keep_temp |-> FALSE, page_num |-> 0,
                  at |-> "idle", raised |-> "none", calls |-> 0]
    /\ pdf_pages = <<>>
    /\ stages = <<>>
    /\ final_pdf = <<>>
    /\ NoDehyph
    /\ NoCall
    /\ NoSynth

\* MorphicPipeline.initialize: the engines are built and the temp directory
\* is made, or building an engine raises and _initialized stays False
Initialize ==
    /\ request.at \in {"idle", "raised"}
    /\ ~pipeline.initialized
    /\ request.method \in {"none", "initialize"}
    /\ \E built \in BOOLEAN :
          IF built
          THEN /\ pipeline' = [pipeline EXCEPT !.initialized = TRUE, !.temp_dir = "present"]
               /\ request' = [request EXCEPT !.method = "initialize", !.at = "idle",
                                             !.raised = "none"]
          ELSE /\ pipeline' = pipeline
               /\ request' = [request EXCEPT !.method = "initialize", !.at = "raised",
                                             !.raised = "RuntimeError"]
    /\ UNCHANGED <<pdf_pages, stages, final_pdf>>
    /\ UNCHANGED <<dehyph_vars, call_vars, synth_vars>>

\* process_pdf up to its loop (lines 193-231: pages is what convert_from_path
\* returned) and process_images up to its loop (lines 344-357)
StartCall ==
    /\ request.at \in {"idle", "raised", "returned"}
    /\ request.calls < MaxCalls
    /\ \E method \in {"process_pdf", "process_images"}, keep \in BOOLEAN, found \in BOOLEAN,
          input \in UNION {[1..m -> ImageCatalogue] : m \in 0..MaxPages} :
          LET call == [method |-> method, images |-> input, keep_temp |-> keep,
                       page_num |-> 1, at |-> "idle", raised |-> "none",
                       calls |-> request.calls + 1]
              error == IF ~pipeline.initialized THEN "RuntimeError"
                       ELSE IF method = "process_pdf" /\ ~found THEN "FileNotFoundError"
                       ELSE IF method = "process_images" /\ input = <<>> THEN "ValueError"
                       ELSE "none"
          IN  /\ (found \/ (method = "process_pdf" /\ input = <<>>))
              /\ request' =
                    IF error # "none"
                    THEN [call EXCEPT !.at = "raised", !.raised = error, !.images = <<>>]
                    ELSE [call EXCEPT !.at = IF input = <<>> THEN "merge"
                                             ELSE IF method = "process_pdf" THEN "save"
                                             ELSE "ocr"]
    /\ pdf_pages' = <<>>
    /\ stages' = <<>>
    /\ UNCHANGED <<pipeline, final_pdf>>
    /\ UNCHANGED <<dehyph_vars, call_vars, synth_vars>>

\* process_pdf, lines 236-241: img.save(img_path) into temp_dir
SaveImage ==
    /\ request.at = "save"
    /\ IF pipeline.temp_dir = "present"
       THEN /\ pipeline' = [pipeline EXCEPT
                               !.files = @ \cup {<<request.page_num, "png">>}]
            /\ request' = [request EXCEPT !.at = "ocr"]
       ELSE /\ pipeline' = pipeline
            /\ request' = [request EXCEPT !.at = "raised", !.raised = "FileNotFoundError"]
    /\ UNCHANGED <<pdf_pages, stages, final_pdf>>
    /\ UNCHANGED <<dehyph_vars, call_vars, synth_vars>>

\* ocr_engine.recognize_to_hocr(img, output_path=page_base): it saves its
\* image next to page_base (tesseract.py line 223), runs Tesseract and
\* returns the path of the hOCR file, or raises RuntimeError
Recognize ==
    /\ request.at = "ocr"
    /\ \E recognized \in BOOLEAN :
          IF pipeline.temp_dir # "present"
          THEN /\ request' = [request EXCEPT !.at = "raised", !.raised = "FileNotFoundError"]
               /\ UNCHANGED <<pipeline, stages>>
          ELSE IF ~recognized
          THEN /\ request' = [request EXCEPT !.at = "raised", !.raised = "RuntimeError"]
               /\ UNCHANGED <<pipeline, stages>>
          ELSE /\ pipeline' = [pipeline EXCEPT
                                  !.files = @ \cup {<<request.page_num, "hocr">>}]
               /\ stages' = Append(stages, [page_num |-> request.page_num,
                                            stage |-> "recognize_to_hocr"])
               /\ request' = [request EXCEPT
                                 !.at = IF pipeline.enabled THEN "dehyphenate"
                                        ELSE "synthesize"]
    /\ UNCHANGED <<pdf_pages, final_pdf>>
    /\ UNCHANGED <<dehyph_vars, call_vars, synth_vars>>

\* lines 251-255 and 377-379: self.dehyphenator.process_file(hocr_path)
DehyphenateFile ==
    /\ request.at = "dehyphenate"
    /\ stages' = Append(stages, [page_num |-> request.page_num, stage |-> "process_file"])
    /\ request' = [request EXCEPT !.at = "synthesize"]
    /\ UNCHANGED <<pipeline, pdf_pages, final_pdf>>
    /\ UNCHANGED <<dehyph_vars, call_vars, synth_vars>>

\* lines 259-265 and 382-388: create_searchable_page returns the page's PDF,
\* which is appended to pdf_pages, or raises RuntimeError
SynthesizePage ==
    /\ request.at = "synthesize"
    /\ \E built \in BOOLEAN :
          IF built
          THEN /\ pdf_pages' = Append(pdf_pages,
                                      <<[image |-> request.images[request.page_num]]>>)
               /\ stages' = Append(stages, [page_num |-> request.page_num,
                                            stage |-> "create_searchable_page"])
               /\ request' = [request EXCEPT !.at = "cleanup"]
          ELSE /\ request' = [request EXCEPT !.at = "raised", !.raised = "RuntimeError"]
               /\ UNCHANGED <<pdf_pages, stages>>
    /\ UNCHANGED <<pipeline, final_pdf>>
    /\ UNCHANGED <<dehyph_vars, call_vars, synth_vars>>

\* lines 268-270 and 391-392: the page's temp files are unlinked unless
\* keep_temp, and the loop goes to the next page
CleanupPage ==
    /\ request.at = "cleanup"
    /\ pipeline' = IF request.keep_temp THEN pipeline
                   ELSE [pipeline EXCEPT !.files = @ \ {<<request.page_num, "png">>,
                                                         <<request.page_num, "hocr">>}]
    /\ request' = [request EXCEPT
                      !.page_num = @ + 1,
                      !.at = IF request.page_num = Len(request.images) THEN "merge"
                             ELSE IF request.method = "process_pdf" THEN "save"
                             ELSE "ocr"]
    /\ UNCHANGED <<pdf_pages, stages, final_pdf>>
    /\ UNCHANGED <<dehyph_vars, call_vars, synth_vars>>

\* a plausible slip: the pages are put into the document last first
RECURSIVE merge_pages_reversed(_)
merge_pages_reversed(pages) ==
    IF pages = <<>> THEN <<>> ELSE merge_pages_reversed(Tail(pages)) \o Head(pages)

\* PikePDFEngine.merge_pages: output_pdf.pages.extend(page_pdf.pages) for
\* each page PDF in turn
RECURSIVE merge_pages(_)
merge_pages(pages) ==
    IF pages = <<>> THEN <<>> ELSE Head(pages) \o merge_pages(Tail(pages))

\* lines 277-283 and 396-398: merge_pages raises ValueError on an empty list;
\* otherwise the merged document is saved at output_pdf
MergeAndSave ==
    /\ request.at = "merge"
    /\ IF pdf_pages = <<>>
       THEN /\ request' = [request EXCEPT !.at = "raised", !.raised = "ValueError"]
            /\ UNCHANGED <<stages, final_pdf>>
       ELSE /\ final_pdf' = merge_pages(pdf_pages)
            /\ stages' = Append(stages, [page_num |-> 0, stage |-> "merge_pages"])
            /\ request' = [request EXCEPT !.at = "rmtree"]
    /\ UNCHANGED <<pipeline, pdf_pages>>
    /\ UNCHANGED <<dehyph_vars, call_vars, synth_vars>>

\* lines 289-294 and 401-402: unless keep_temp, shutil.rmtree(self.temp_dir)
\* removes the directory; if it fails the failure is logged or ignored. The
\* call then returns its statistics.
RemoveTempDir ==
    /\ request.at = "rmtree"
    /\ \E removed \in BOOLEAN :
          pipeline' = IF ~request.keep_temp /\ pipeline.temp_dir = "present" /\ removed
                      THEN [pipeline EXCEPT !.temp_dir = "absent", !.files = {}]
                      ELSE pipeline
    /\ request' = [request EXCEPT !.at = "returned"]
    /\ UNCHANGED <<pdf_pages, stages, final_pdf>>
    /\ UNCHANGED <<dehyph_vars, call_vars, synth_vars>>

PipelineNext ==
    \/ Initialize
    \/ StartCall
    \/ SaveImage
    \/ Recognize
    \/ DehyphenateFile
    \/ SynthesizePage
    \/ CleanupPage
    \/ MergeAndSave
    \/ RemoveTempDir

PipelineSpec == PipelineInit /\ [][PipelineNext]_vars

(***************************************************************************)
(* Vocabulary of the properties of a pipeline call                         *)
(***************************************************************************)
\* the engine calls one page needs, in the order the claim gives
PageStages(j) ==
    <<[page_num |-> j, stage |-> "recognize_to_hocr"]>>
    \o (IF pipeline.enabled THEN <<[page_num |-> j, stage |-> "process_file"]>> ELSE <<>>)
    \o <<[page_num |-> j, stage |-> "create_searchable_page"]>>

\* the calls of pages j..n, page after page
RECURSIVE StagesFrom(_, _)
StagesFrom(j, n) == IF j > n THEN <<>> ELSE PageStages(j) \o StagesFrom(j + 1, n)

IsPrefix(a, b) == Len(a) <= Len(b) /\ SubSeq(b, 1, Len(a)) = a

\* C22: the engine calls of a process_pdf or process_images call are, page
\* after page, recognition, dehyphenation (when enabled) and synthesis, a
\* page's PDF joins the list for assembly only when all of its calls have
\* been made, assembly comes after every page, and the saved document has
\* one page per input page in input order.
C22_PagesCompleteBeforeAssembly ==
    request # <<>> =>
        /\ IsPrefix(stages, StagesFrom(1, Len(request.images))
                                \o <<[page_num |-> 0, stage |-> "merge_pages"]>>)
        /\ Len(pdf_pages) <= Len(request.images)
        /\ \A j \in 1..Len(pdf_pages) :
               /\ pdf_pages[j] = <<[image |-> request.images[j]]>>
               /\ IsPrefix(StagesFrom(1, j), stages)
        /\ request.at \in {"rmtree", "returned"} =>
               /\ Len(final_pdf) = Len(request.images)
               /\ \A j \in 1..Len(final_pdf) : final_pdf[j] = [image |-> request.images[j]]

\* a call on two different pages has returned with dehyphenation enabled:
\* seven engine calls, and the two pages in the saved document
C22_Witness ==
    /\ request # <<>>
    /\ request.at = "returned"
    /\ request.images = <<"scanB", "scanA">>
    /\ pipeline.enabled
    /\ Len(stages) = 7
    /\ final_pdf = <<[image |-> "scanB"], [image |-> "scanA"]>>

(***************************************************************************)
(* old_morphic.dehyphenate_lines: the line texts EasyOCR returned          *)
(***************************************************************************)
\* old_morphic.dehyphenate_lines, lines 72-158. results is a list of
\* [bbox, text, conf]; enchant.state is "unavailable" (the import failed),
\* "Error" (enchant.Dict raised) or "loaded", and enchant.known holds the
\* words dict_checker.check accepts
dehyphenate_lines(results, enchant) ==
    LET check_word(w) == w \in enchant.known
        RECURSIVE from(_)
        from(n) ==
            IF n > Len(results) THEN <<>>
            ELSE LET text == results[n].text
                     next_text == results[n + 1].text
                     text_without_hyphen == SubSeq(RStrip(text), 1, Len(RStrip(text)) - 1)
                     last_word_match ==
                         text_without_hyphen # <<>>
                             /\ text_without_hyphen[Len(text_without_hyphen)] \notin Whitespace
                     start == CHOOSE s \in 1..Len(text_without_hyphen) :
                                 /\ \A j \in s..Len(text_without_hyphen) :
                                        text_without_hyphen[j] \notin Whitespace
                                 /\ s = 1 \/ text_without_hyphen[s - 1] \in Whitespace
                     word_before_hyphen ==
                         SubSeq(text_without_hyphen, start, Len(text_without_hyphen))
                     stripped == LStrip(next_text)
                     first_word_match == stripped # <<>>
                     end == CHOOSE e \in 1..Len(stripped) :
                               /\ \A j \in 1..e : stripped[j] \notin Whitespace
                               /\ e = Len(stripped) \/ stripped[e + 1] \in Whitespace
                     word_after_hyphen == SubSeq(stripped, 1, end)
                     merged_word == word_before_hyphen \o word_after_hyphen
                     hyphenated_form == word_before_hyphen \o <<"-">> \o word_after_hyphen
                     remaining_next_text ==
                         LStrip(SubSeq(next_text, end + 1, Len(next_text)))
                 IN  IF /\ EndsWithHyphen(RStrip(text))
                        /\ n < Len(results)
                        /\ last_word_match
                        /\ first_word_match
                        /\ check_word(merged_word)
                        /\ ~check_word(hyphenated_form)
                     THEN << [results[n] EXCEPT
                                 !.text = SubSeq(text_without_hyphen, 1, start - 1)
                                              \o merged_word] >>
                          \o (IF Strip(remaining_next_text) # <<>>
                              THEN <<[results[n + 1] EXCEPT !.text = remaining_next_text]>>
                              ELSE <<>>)
                          \o from(n + 2)
                     ELSE <<results[n]>> \o from(n + 1)
    IN  IF enchant.state \in {"unavailable", "Error"} \/ results = <<>>
        THEN results
        ELSE from(1)

\* texts of lines: a-, b, The num-, ber now, num- followed by a blank, and
\* a line without a word before its hyphen
LegacyTexts ==
    { <<"a","-">>, <<"b">>,
      <<"T","h","e"," ","n","u","m","-">>, <<"b","e","r"," ","n","o","w">>,
      <<"n","u","m","-"," ">>, <<" ","-">> }

\* enchant knows number, ab and the compound a-b
LegacyInit ==
    /\ arg \in [results : UNION {[1..m -> {[bbox |-> b, text |-> t, conf |-> 90] :
                                               b \in {ZeroBox}, t \in LegacyTexts}] :
                                    m \in 0..MaxLines},
                enchant : [state : {"unavailable", "Error", "loaded"},
                           known : {{StrNumber, StrAb, <<"a","-","b">>}}]]
    /\ result = <<>>
    /\ phase = "ready"
    /\ NoDehyph
    /\ NoSynth
    /\ NoPipe

\* results = dehyphenate_lines(results, debug), line 345
DehyphenateLines ==
    /\ phase = "ready"
    /\ result' = dehyphenate_lines(arg.results, arg.enchant)
    /\ phase' = "called"
    /\ UNCHANGED <<arg, dehyph_vars, synth_vars, pipe_vars>>

LegacySpec == LegacyInit /\ [][DehyphenateLines]_vars

\* the words of a line's text, and the pair of words around its hyphen
HyphenPair(n) ==
    LET here == SplitWhitespace(arg.results[n].text)
        there == SplitWhitespace(arg.results[n + 1].text)
    IN  IF here # <<>> /\ there # <<>> /\ Len(here[Len(here)]) >= 2
           /\ EndsWithHyphen(here[Len(here)])
        THEN << SubSeq(here[Len(here)], 1, Len(here[Len(here)]) - 1), there[1] >>
        ELSE <<>>

\* C23: when the word before a line's final hyphen and the first word of the
\* next line make a word the oracle accepts, the two are merged, also when
\* the oracle accepts the hyphenated form as a word of its own.
C23_HyphenFormNeverBlocks ==
    (phase = "called" /\ arg.enchant.state = "loaded"
        /\ Len(arg.results) >= 2 /\ HyphenPair(1) # <<>>
        /\ (HyphenPair(1)[1] \o HyphenPair(1)[2]) \in arg.enchant.known)
    => LET shown == SplitWhitespace(result[1].text)
       IN  shown # <<>> /\ shown[Len(shown)] = HyphenPair(1)[1] \o HyphenPair(1)[2]

\* C24: every box that parsing a title attribute produces satisfies
\* x2 >= x1 and y2 >= y1, in the dehyphenator and in the PDF engine.
C24_ParsedBoxesWellFormed ==
    phase = "called" => (ValidBox(result.dehyphenator) /\ ValidBox(result.engine))

\* the text ends with the given text
EndsWith(s, p) == Len(s) >= Len(p) /\ SubSeq(s, Len(s) - Len(p) + 1, Len(s)) = p

\* C25: after process_file every word that is no longer in a line has its
\* text carried, as the end of a merged text, by a word that is still in a
\* line of the page.
C25_NoTextLost ==
    pc = "done" =>
        \A id \in DOMAIN elem :
            ~Attached(id) =>
                \E kept \in DOMAIN elem :
                    /\ Attached(kept)
                    /\ EndsWith(get_word_text(elem[kept]), get_word_text(OriginalWord(id)))

\* C26: a second process_file call made right after the first returns 0 and
\* leaves the file as the first call left it.
C26_SecondPassChangesNothing ==
    (runs = 2 /\ pc = "done") => (ret = 0 /\ file = before)

(***************************************************************************)
(* C27: the two readers of a word's text                                   *)
(***************************************************************************)
\* the words of the lines from the n-th on, in page order
RECURSIVE WordsFrom(_)
WordsFrom(n) ==
    IF n > Len(tree.lines) THEN <<>> ELSE tree.lines[n].words \o WordsFrom(n + 1)

\* the word literals of the TJ arrays from the n-th on, in page order
RECURSIVE RunsFrom(_)
RunsFrom(n) ==
    IF n > Len(Instructions("TJ")) THEN <<>>
    ELSE WordRuns(Instructions("TJ")[n].array) \o RunsFrom(n + 1)

\* the words of the page in which the dehyphenator reads a text, and which
\* have a box to be placed in
SeenByDehyphenator ==
    SelectSeq(WordsFrom(1), LAMBDA w :
        /\ get_word_text(w) # <<>>
        /\ width(engine_parse_bbox(w.title)) > 0
        /\ height(engine_parse_bbox(w.title)) > 0)

\* C27: the words in the text layer of a synthesized page are the words in
\* which the dehyphenator reads a non-empty text, each with the text the
\* dehyphenator reads, also for a word whose text is in a child element.
C27_SameTextRead ==
    LinePageDone =>
        /\ Len(RunsFrom(1)) = Len(SeenByDehyphenator)
        /\ \A m \in 1..Min(Len(RunsFrom(1)), Len(SeenByDehyphenator)) :
               Unescaped(RunsFrom(1)[m]) = InAscii(get_word_text(SeenByDehyphenator[m]))

(***************************************************************************)
(* C28: the order of the words of a synthetic line                         *)
(***************************************************************************)
\* the groups of the sorted words that start at s or later
RECURSIVE GroupsFrom(_, _, _)
GroupsFrom(ws, starts, s) ==
    IF s > Len(ws) THEN <<>>
    ELSE LET group == GroupAt(ws, starts, s)
         IN  <<group>> \o GroupsFrom(ws, starts, s + Len(group))

\* the groups that have a usable word: the synthetic lines of the text layer
SyntheticLines ==
    SelectSeq(GroupsFrom(sorted_words, StartsOf(sorted_words), 1),
              LAMBDA g : UsableWords(g) # <<>>)

\* C28: on a page without line elements every synthetic line is one text
\* object whose words are emitted from left to right, with non-decreasing x1,
\* and which is positioned at the leftmost word of its group.
C28_SyntheticLineLeftToRight ==
    LoosePageGrouped =>
        /\ Len(Instructions("TJ")) = Len(SyntheticLines)
        /\ \A j \in 1..Min(Len(Instructions("TJ")), Len(SyntheticLines)) :
               LET ws == UsableWords(SyntheticLines[j])
                   shown == WordRuns(Instructions("TJ")[j].array)
                   x1(w) == engine_parse_bbox(w.title).x1
               IN  /\ Len(shown) = Len(ws)
                   /\ \A m \in 1..Min(Len(shown), Len(ws)) :
                          Unescaped(shown[m]) = InAscii(TextOf(ws[m]))
                   /\ \A a, b \in 1..Len(ws) : a < b => x1(ws[a]) <= x1(ws[b])
                   /\ \A m \in 1..Len(ws) :
                          2 * (Instructions("Tm")[j].x * job.dpi - 100 * x1(ws[m]) * 72)
                              <= job.dpi

\* C29: once initialize has succeeded, a process_pdf or process_images call
\* that is about to write a page file into the temporary working directory
\* finds that directory, however many calls were made before it.
C29_TempDirAvailable ==
    (request # <<>> /\ pipeline.initialized /\ request.at \in {"save", "ocr"})
        => pipeline.temp_dir = "present"

(***************************************************************************)
(* Dehyphenator.process_file with an output_path of its own                *)
(***************************************************************************)
\* process_file(hocr_path, output_path) with output_path another path than
\* hocr_path, at which there is no file yet
OutputInit ==
    /\ self \in ConfigCatalogue
    /\ file \in InputFiles
    /\ pc = "idle"
    /\ lines = NoTree
    /\ elem = <<>>
    /\ i = 0
    /\ candidates = <<>>
    /\ k = 0
    /\ merged_count = 0
    /\ ret = 0
    /\ writes = 0
    /\ before = file
    /\ runs = 1
    /\ output = [path |-> "output_path", document |-> <<>>]
    /\ NoCall
    /\ NoSynth
    /\ NoPipe

OutputSpec == OutputInit /\ [][Next]_vars

\* C30: after an enabled process_file call with an output_path of its own on
\* an input that parses, the output path holds the resulting document: the
\* page with ret words fewer than the input, the input's page when nothing
\* was merged.
C30_OutputPathHoldsDocument ==
    (pc = "done" /\ self.enabled /\ before.parses /\ output.path = "output_path")
        => /\ output.document # <<>>
           /\ WordCount(before) - WordCount(output.document) = ret
           /\ ret = 0 => output.document = before

====
